---- MODULE Spec2Model ----
(***************************************************************************)
(* A model of the statics calculator's engine: the Vector2 arithmetic, the *)
(* validator isSane, the equation solver built on ml-matrix's inverse, the *)
(* reaction-force and member-force solvers, the two variants of solve (the *)
(* trace-producing one and the earlier trace-free one) and parseState.     *)
(*                                                                         *)
(* Numbers are exact rationals <<n, d>> with d > 0 in lowest terms; the    *)
(* bounded inputs keep every member length an integer, so Math.sqrt is     *)
(* exact on them.  <<0, 0>> stands for NaN and <<1, 0>>, <<-1, 0>> for the *)
(* two infinities.                                                         *)
(***************************************************************************)
EXTENDS Integers, Sequences, FiniteSets, TLC

VARIABLES state, sol, solT, json, parsed, sane, fixed, after, eqs, eqSol,
          vecIn, vecOut, ed, loop

vars == <<state, sol, solT, json, parsed, sane, fixed, after, eqs, eqSol,
          vecIn, vecOut, ed, loop>>

(***************************************************************************)
(* Exact arithmetic on JavaScript numbers                                  *)
(***************************************************************************)
Abs(n) == IF n < 0 THEN -n ELSE n

RECURSIVE Gcd(_, _)
Gcd(a, b) == IF b = 0 THEN a ELSE Gcd(b, a % b)

Norm(n, d) ==
  IF d = 0 THEN <<(IF n > 0 THEN 1 ELSE IF n < 0 THEN -1 ELSE 0), 0>>
  ELSE LET g == Gcd(Abs(n), Abs(d))
           s == IF d < 0 THEN -1 ELSE 1
       IN <<s * (n \div g), s * (d \div g)>>

Num(n) == <<n, 1>>
NaN == <<0, 0>>
IsNaN(a) == a = NaN
IsFinite(a) == a[2] # 0
Zero == Num(0)
One == Num(1)

\* IEEE: NaN absorbs; Infinity - Infinity and 0 * Infinity are NaN.
Add(a, b) ==
  IF IsNaN(a) \/ IsNaN(b) THEN NaN
  ELSE IF ~IsFinite(a) /\ ~IsFinite(b) THEN (IF a = b THEN a ELSE NaN)
  ELSE IF ~IsFinite(a) THEN a
  ELSE IF ~IsFinite(b) THEN b
  ELSE Norm(a[1] * b[2] + b[1] * a[2], a[2] * b[2])

Neg(a) == <<-a[1], a[2]>>

Sub(a, b) == Add(a, Neg(b))

Mul(a, b) ==
  IF IsNaN(a) \/ IsNaN(b) THEN NaN
  ELSE Norm(a[1] * b[1], a[2] * b[2])

\* x / 0 is an infinity of x's sign, 0 / 0 is NaN.
Div(a, b) ==
  IF IsNaN(a) \/ IsNaN(b) THEN NaN
  ELSE IF ~IsFinite(a) /\ ~IsFinite(b) THEN NaN
  ELSE IF ~IsFinite(b) THEN Zero
  ELSE Norm(a[1] * b[2], a[2] * b[1])

\* Math.sqrt on the squares the bounded inputs produce.
Sqrt(a) ==
  LET n == a[1]
      d == a[2]
  IN <<CHOOSE r \in 0..n : r * r = n, CHOOSE r \in 1..d : r * r = d>>

(***************************************************************************)
(* Vector2                                                                 *)
(***************************************************************************)
Vector2(x, y) == [x |-> x, y |-> y]

plus(a, b) == Vector2(Add(a.x, b.x), Add(a.y, b.y))

minus(a, b) == Vector2(Sub(a.x, b.x), Sub(a.y, b.y))

cross(a, b) == Sub(Mul(a.x, b.y), Mul(a.y, b.x))

len(a) == Sqrt(Add(Mul(a.x, a.x), Mul(a.y, a.y)))

scale(a, factor) == Vector2(Mul(a.x, factor), Mul(a.y, factor))

withMag(a, mag) ==
  LET factor == Div(mag, len(a))
  IN IF IsNaN(factor) THEN Vector2(Zero, Zero) ELSE scale(a, factor)

Axis(v, axis) == IF axis = "x" THEN v.x ELSE v.y

(***************************************************************************)
(* ml-matrix: Matrix, inverse, mmul.  A matrix is [rows, cols, data] with  *)
(* data a sequence of rows.  A result that may throw is [ok, m].           *)
(***************************************************************************)
Matrix(nRows, nCols, data) == [rows |-> nRows, cols |-> nCols, data |-> data]

Threw == [ok |-> FALSE, m |-> Matrix(0, 0, <<>>)]

Ok(m) == [ok |-> TRUE, m |-> m]

RECURSIVE Sum(_, _)
\* f[1] + ... + f[n]
Sum(f, n) == IF n = 0 THEN Zero ELSE Add(Sum(f, n - 1), f[n])

transpose(A) ==
  Matrix(A.cols, A.rows,
         [j \in 1..A.cols |-> [i \in 1..A.rows |-> A.data[i][j]]])

mmul(A, B) ==
  Matrix(A.rows, B.cols,
         [i \in 1..A.rows |->
            [j \in 1..B.cols |->
               Sum([k \in 1..A.cols |-> Mul(A.data[i][k], B.data[k][j])],
                   A.cols)]])

eye(n) ==
  Matrix(n, n, [i \in 1..n |-> [j \in 1..n |-> IF i = j THEN One ELSE Zero]])

RECURSIVE Eliminate(_, _, _)
\* Gauss-Jordan elimination of the n x 2n rows aug from column k on: the
\* rows reduced to [I | inverse], or not ok when a column has no pivot.
Eliminate(aug, n, k) ==
  IF k > n THEN [ok |-> TRUE, data |-> aug]
  ELSE LET cand == {i \in k..n : aug[i][k] # Zero}
       IN IF cand = {} THEN [ok |-> FALSE, data |-> aug]
          ELSE LET p == CHOOSE i \in cand : \A q \in cand : i <= q
                   swapped == [i \in 1..n |->
                                 IF i = k THEN aug[p]
                                 ELSE IF i = p THEN aug[k] ELSE aug[i]]
                   piv == swapped[k][k]
                   prow == [j \in 1..(2 * n) |-> Div(swapped[k][j], piv)]
                   next == [i \in 1..n |->
                              IF i = k THEN prow
                              ELSE LET f == swapped[i][k]
                                   IN IF f = Zero THEN swapped[i]
                                      ELSE [j \in 1..(2 * n) |->
                                              Sub(swapped[i][j], Mul(f, prow[j]))]]
               IN Eliminate(next, n, k + 1)

\* LuDecomposition(A).solve(eye): throws "LU matrix is singular" when a
\* pivot is zero.
LuSolve(r, n) ==
  IF r.ok
  THEN Ok(Matrix(n, n, [i \in 1..n |-> [j \in 1..n |-> r.data[i][n + j]]]))
  ELSE Threw

LuInverse(A) ==
  LuSolve(Eliminate([i \in 1..A.rows |->
                       [j \in 1..(2 * A.rows) |->
                          IF j <= A.rows THEN A.data[i][j]
                          ELSE IF j - A.rows = i THEN One ELSE Zero]],
                    A.rows, 1),
          A.rows)

\* QrDecomposition(A).solve(eye): throws "Matrix is rank deficient" unless A
\* has full column rank (never with fewer rows than columns); with no
\* column at all its final subMatrix(0, -1, ..) throws a RangeError;
\* otherwise the least-squares solution, (A^T A)^-1 A^T.
QrSolve(N, A) == IF N.ok THEN Ok(mmul(N.m, transpose(A))) ELSE Threw

QrInverse(A) ==
  IF A.rows < A.cols THEN Threw
  ELSE IF A.cols = 0 THEN Threw
  ELSE QrSolve(LuInverse(mmul(transpose(A), A)), A)

\* inverse(A) = solve(A, eye(A.rows)): LU when A is square, QR otherwise.
inverse(A) == IF A.rows = A.cols THEN LuInverse(A) ELSE QrInverse(A)

(***************************************************************************)
(* Strings are sequences of one-character strings.                         *)
(***************************************************************************)
DigitChars == <<"0", "1", "2", "3", "4", "5", "6", "7", "8", "9">>

IsDigit(c) == \E i \in 1..10 : DigitChars[i] = c

DigitValue(c) == (CHOOSE i \in 1..10 : DigitChars[i] = c) - 1

RECURSIVE NatToString(_)
NatToString(n) ==
  IF n < 10 THEN <<DigitChars[n + 1]>>
  ELSE NatToString(n \div 10) \o <<DigitChars[(n % 10) + 1]>>

\* Number.prototype.toString / string concatenation of an integer
NumToString(n) == IF n < 0 THEN <<"-">> \o NatToString(-n) ELSE NatToString(n)

RECURSIVE ParseDigits(_, _, _)
\* the value of the longest run of digits of str from position i, on top of acc
ParseDigits(str, i, acc) ==
  IF i > Len(str) \/ ~IsDigit(str[i]) THEN acc
  ELSE ParseDigits(str, i + 1, 10 * acc + DigitValue(str[i]))

\* parseInt on a string that starts with an optional sign and a digit
parseInt(str) ==
  IF Len(str) > 0 /\ str[1] = "-" THEN -ParseDigits(str, 2, 0)
  ELSE ParseDigits(str, 1, 0)

\* str.split("_") for a string holding one "_": <<before, after>>
split(str) ==
  LET i == CHOOSE k \in 1..Len(str) : str[k] = "_" /\ \A q \in 1..(k - 1) : str[q] # "_"
  IN <<SubSeq(str, 1, i - 1), SubSeq(str, i + 1, Len(str))>>

RECURSIVE StrLess(_, _)
\* a < b in the code-unit order Array.prototype.sort compares strings by
StrLess(a, b) ==
  IF Len(b) = 0 THEN FALSE
  ELSE IF Len(a) = 0 THEN TRUE
  ELSE LET ca == CHOOSE i \in 0..10 : IF IsDigit(a[1]) THEN i = DigitValue(a[1]) + 1 ELSE i = 0
           cb == CHOOSE i \in 0..10 : IF IsDigit(b[1]) THEN i = DigitValue(b[1]) + 1 ELSE i = 0
       IN IF ca # cb THEN ca < cb ELSE StrLess(Tail(a), Tail(b))

IsWhitespace(c) == c = " "

RECURSIVE TrimStart(_)
TrimStart(str) ==
  IF Len(str) > 0 /\ IsWhitespace(str[1]) THEN TrimStart(Tail(str)) ELSE str

RECURSIVE TrimEnd(_)
TrimEnd(str) ==
  IF Len(str) > 0 /\ IsWhitespace(str[Len(str)])
  THEN TrimEnd(SubSeq(str, 1, Len(str) - 1))
  ELSE str

trim(str) == TrimEnd(TrimStart(str))

(***************************************************************************)
(* State, Joint, Member, Problem, Solution                                 *)
(***************************************************************************)
Joint(id, name, pos, load, support) ==
  [id |-> id, name |-> name, pos |-> pos, load |-> load, support |-> support]

Member(id, a, b) == [id |-> id, jointIds |-> <<a, b>>]

State(joints, members) == [joints |-> joints, members |-> members]

NoFix == [present |-> FALSE, memberId |-> 0]

\* fix: () => ({joints: state.joints, members: state.members.filter(m => m.id != member.id)})
RemoveMemberFix(member) == [present |-> TRUE, memberId |-> member.id]

Problem(kind, names, nums, critical, fix) ==
  [message |-> [kind |-> kind, names |-> names, nums |-> nums],
   critical |-> critical, fix |-> fix]

\* the test of solve that finds no problem critical
NeverCritical(problems) == FALSE

\* problems.find(problem => problem.critical) !== undefined
HasCritical(problems) == \E i \in 1..Len(problems) : problems[i].critical

RECURSIVE FilterInverted(_, _)
\* seq.filter(x => x.id == id): the test the wrong way round
FilterInverted(seq, id) ==
  IF seq = <<>> THEN <<>>
  ELSE IF Head(seq).id = id THEN <<Head(seq)>> \o FilterInverted(Tail(seq), id)
  ELSE FilterInverted(Tail(seq), id)

RECURSIVE Filter(_, _)
\* seq.filter(x => x.id != id)
Filter(seq, id) ==
  IF seq = <<>> THEN <<>>
  ELSE IF Head(seq).id # id THEN <<Head(seq)>> \o Filter(Tail(seq), id)
  ELSE Filter(Tail(seq), id)

\* a fix that returns the structure as it is
CallFixKeepsAll(s, problem) == s

\* what calling problem.fix() returns, for a problem isSane(s) reported
CallFix(s, problem) == State(s.joints, Filter(s.members, problem.fix.memberId))

\* state.joints.find(j => j.id == id), for an id that is present
FindJoint(s, id) ==
  s.joints[CHOOSE i \in 1..Len(s.joints) :
             s.joints[i].id = id /\ \A q \in 1..(i - 1) : s.joints[q].id # id]

(***************************************************************************)
(* isSane: the validator                                                   *)
(***************************************************************************)
NoMembersProblem == Problem("No structural members exist", <<>>, <<>>, TRUE, NoFix)

RECURSIVE NameProblemsTrimmed(_, _, _)
\* the name loop recording and looking up the trimmed name
NameProblemsTrimmed(joints, i, reusedName) ==
  IF i > Len(joints) THEN <<>>
  ELSE LET joint == joints[i]
       IN IF trim(joint.name) = <<>>
          THEN <<Problem("Joint name missing", <<>>, <<>>, FALSE, NoFix)>>
               \o NameProblemsTrimmed(joints, i + 1, reusedName)
          ELSE IF trim(joint.name) \in reusedName
          THEN <<Problem("Multiple joint exist with name", <<joint.name>>, <<>>,
                         FALSE, NoFix)>>
               \o NameProblemsTrimmed(joints, i + 1, reusedName)
          ELSE NameProblemsTrimmed(joints, i + 1, reusedName \cup {trim(joint.name)})

RECURSIVE NameProblems(_, _, _)
\* the loop over state.joints with the set reusedName, from joint i on
NameProblems(joints, i, reusedName) ==
  IF i > Len(joints) THEN <<>>
  ELSE LET joint == joints[i]
       IN IF trim(joint.name) = <<>>
          THEN <<Problem("Joint name missing", <<>>, <<>>, FALSE, NoFix)>>
               \o NameProblems(joints, i + 1, reusedName)
          ELSE IF joint.name \in reusedName
          THEN <<Problem("Multiple joint exist with name", <<joint.name>>, <<>>,
                         FALSE, NoFix)>>
               \o NameProblems(joints, i + 1, reusedName)
          ELSE NameProblems(joints, i + 1, reusedName \cup {joint.name})

\* a coordinate in string concatenation: an integer prints its digits, NaN
\* and the infinities their names; any other number prints the shortest
\* decimal that reads back as it, one text per value, written here n/d
CoordToString(a) ==
  IF a[2] = 1 THEN NumToString(a[1])
  ELSE IF a[2] = 0
  THEN (IF a[1] = 0 THEN <<"N", "a", "N">>
        ELSE (IF a[1] < 0 THEN <<"-">> ELSE <<>>)
             \o <<"I", "n", "f", "i", "n", "i", "t", "y">>)
  ELSE NumToString(a[1]) \o <<"/">> \o NumToString(a[2])

\* joint.pos.x + "_" + joint.pos.y
PosKey(pos) == CoordToString(pos.x) \o <<"_">> \o CoordToString(pos.y)

RECURSIVE OverlapProblemsLatest(_, _, _)
\* the overlap loop recording the latest joint at a position, not the first
OverlapProblemsLatest(joints, i, reusedPoints) ==
  IF i > Len(joints) THEN <<>>
  ELSE LET joint == joints[i]
           key == PosKey(joint.pos)
       IN (IF key \in DOMAIN reusedPoints
           THEN <<Problem("Joints overlap",
                          <<joints[reusedPoints[key]].name, joint.name>>, <<>>,
                          TRUE, NoFix)>>
           ELSE <<>>)
          \o OverlapProblemsLatest(joints, i + 1,
                 [k \in DOMAIN reusedPoints \cup {key} |->
                    IF k = key THEN i ELSE reusedPoints[k]])

RECURSIVE OverlapProblems(_, _, _)
\* the loop over state.joints with the map reusedPoints (key -> joint index)
OverlapProblems(joints, i, reusedPoints) ==
  IF i > Len(joints) THEN <<>>
  ELSE LET joint == joints[i]
           key == PosKey(joint.pos)
       IN IF key \in DOMAIN reusedPoints
          THEN <<Problem("Joints overlap",
                         <<joints[reusedPoints[key]].name, joint.name>>, <<>>,
                         TRUE, NoFix)>>
               \o OverlapProblems(joints, i + 1, reusedPoints)
          ELSE OverlapProblems(joints, i + 1,
                 [k \in DOMAIN reusedPoints \cup {key} |->
                    IF k = key THEN i ELSE reusedPoints[k]])

RECURSIVE InvalidMemberProblems(_, _)
\* the loop reporting members whose two joint ids are equal
InvalidMemberProblems(s, i) ==
  IF i > Len(s.members) THEN <<>>
  ELSE LET member == s.members[i]
       IN IF member.jointIds[1] = member.jointIds[2]
          THEN <<Problem("Invalid member exists on joint",
                         <<FindJoint(s, member.jointIds[1]).name>>, <<>>,
                         TRUE, RemoveMemberFix(member))>>
               \o InvalidMemberProblems(s, i + 1)
          ELSE InvalidMemberProblems(s, i + 1)

\* member.jointIds.join("_"), the key without the sort
MemberKeyUnsorted(member) ==
  NumToString(member.jointIds[1]) \o <<"_">> \o NumToString(member.jointIds[2])

\* [...member.jointIds].sort().join("_"): sort orders by the printed ids
MemberKey(member) ==
  LET a == NumToString(member.jointIds[1])
      b == NumToString(member.jointIds[2])
  IN IF StrLess(b, a) THEN b \o <<"_">> \o a ELSE a \o <<"_">> \o b

RECURSIVE DuplicateMemberProblems(_, _, _)
\* the loop over state.members with the set duplicateMembers
DuplicateMemberProblems(s, i, duplicateMembers) ==
  IF i > Len(s.members) THEN <<>>
  ELSE LET member == s.members[i]
           key == MemberKey(member)
       IN IF key \in duplicateMembers
          THEN <<Problem("Duplicate members exist between joints",
                         <<FindJoint(s, member.jointIds[1]).name,
                           FindJoint(s, member.jointIds[2]).name>>, <<>>,
                         TRUE, RemoveMemberFix(member))>>
               \o DuplicateMemberProblems(s, i + 1, duplicateMembers)
          ELSE DuplicateMemberProblems(s, i + 1, duplicateMembers \cup {key})

\* J, M and R of the static-determinacy heuristic
CountJ(s) == Len(s.joints)

CountM(s) == Len(s.members)

\* R counted per supported joint, not per support flag
CountRPerJoint(s) ==
  Cardinality({i \in 1..Len(s.joints) : s.joints[i].support.x \/ s.joints[i].support.y})

CountR(s) ==
  Cardinality({i \in 1..Len(s.joints) : s.joints[i].support.x})
  + Cardinality({i \in 1..Len(s.joints) : s.joints[i].support.y})

DeterminacyProblems(s) ==
  IF 2 * CountJ(s) # CountM(s) + CountR(s)
  THEN <<Problem("Structure is not statically determinate", <<>>,
                 <<CountJ(s), CountM(s), CountR(s)>>, TRUE, NoFix)>>
  ELSE <<>>

\* isSane without the early return on an empty member list: the later checks
\* run on a structure that has no member
isSaneWithoutEarlyReturn(s) ==
  LET problems == NameProblems(s.joints, 1, {})
                  \o OverlapProblems(s.joints, 1, <<>>)
                  \o InvalidMemberProblems(s, 1)
                  \o DuplicateMemberProblems(s, 1, {})
  IN IF Len(problems) > 0 THEN problems ELSE DeterminacyProblems(s)

\* isSane with the overlap loop run before the name loop
isSaneOverlapsFirst(s) ==
  IF Len(s.members) = 0 THEN <<NoMembersProblem>>
  ELSE LET problems == OverlapProblems(s.joints, 1, <<>>)
                       \o NameProblems(s.joints, 1, {})
                       \o InvalidMemberProblems(s, 1)
                       \o DuplicateMemberProblems(s, 1, {})
       IN IF Len(problems) > 0 THEN problems ELSE DeterminacyProblems(s)

isSane(s) ==
  IF Len(s.members) = 0 THEN <<NoMembersProblem>>
  ELSE LET problems == NameProblems(s.joints, 1, {})
                       \o OverlapProblems(s.joints, 1, <<>>)
                       \o InvalidMemberProblems(s, 1)
                       \o DuplicateMemberProblems(s, 1, {})
       IN IF Len(problems) > 0 THEN problems ELSE DeterminacyProblems(s)

(***************************************************************************)
(* solveSystemOfEquations                                                  *)
(***************************************************************************)
Term(name, coeff) == [name |-> name, coeff |-> coeff]

Equation(terms, constant) == [terms |-> terms, constant |-> constant]

\* terms.set(name, coeff) on a Map kept as a sequence in insertion order
MapSet(terms, name, coeff) ==
  IF \E i \in 1..Len(terms) : terms[i].name = name
  THEN [i \in 1..Len(terms) |->
          IF terms[i].name = name THEN Term(name, coeff) ELSE terms[i]]
  ELSE Append(terms, Term(name, coeff))

RECURSIVE Dedupe(_, _)
\* Array.from(new Set(names)): the distinct names in first-seen order
Dedupe(names, seen) ==
  IF names = <<>> THEN <<>>
  ELSE IF Head(names) \in seen THEN Dedupe(Tail(names), seen)
  ELSE <<Head(names)>> \o Dedupe(Tail(names), seen \cup {Head(names)})

RECURSIVE TermKeys(_, _)
\* equations.flatMap(equation => [...equation.terms.keys()]) from equation i on
TermKeys(equations, i) ==
  IF i > Len(equations) THEN <<>>
  ELSE [k \in 1..Len(equations[i].terms) |-> equations[i].terms[k].name]
       \o TermKeys(equations, i + 1)

VariableNames(equations) == Dedupe(TermKeys(equations, 1), {})

\* one row of A: the coefficient of each variable, 0 where the equation has no term
CoeffRow(equation, variableNames) ==
  [j \in 1..Len(variableNames) |->
     IF \E k \in 1..Len(equation.terms) : equation.terms[k].name = variableNames[j]
     THEN equation.terms[CHOOSE k \in 1..Len(equation.terms) :
                           equation.terms[k].name = variableNames[j]].coeff
     ELSE Zero]

NoSolution == [solved |-> FALSE, solution |-> <<>>]

\* null (solved = FALSE) when inverse throws.  With no variable at all A has
\* rows of no column, which ml-matrix builds, and inverse throws on it.
\* A: one row per equation, one column per variable
MatrixA(equations, variableNames) ==
  Matrix(Len(equations), Len(variableNames),
         [i \in 1..Len(equations) |-> CoeffRow(equations[i], variableNames)])

\* B: the negated constants, one column
MatrixB(equations) ==
  Matrix(Len(equations), 1,
         [i \in 1..Len(equations) |-> <<Neg(equations[i].constant)>>])

\* X = A1.mmul(B), as the Map from each variable's name to its value
SolutionMap(variableNames, X) ==
  [solved |-> TRUE,
   solution |-> [i \in 1..Len(variableNames) |->
                   [name |-> variableNames[i], value |-> X.data[i][1]]]]

\* the try around inverse(A): null when it throws
TryInverse(variableNames, A1, B) ==
  IF ~A1.ok THEN NoSolution ELSE SolutionMap(variableNames, mmul(A1.m, B))

SolveFor(equations, variableNames) ==
  TryInverse(variableNames, inverse(MatrixA(equations, variableNames)),
             MatrixB(equations))

solveSystemOfEquations(equations) == SolveFor(equations, VariableNames(equations))

(***************************************************************************)
(* solveORF: outside reaction forces                                       *)
(***************************************************************************)
VarName(id, axis) == NumToString(id) \o <<"_", axis>>

RECURSIVE OrfEquations(_, _, _, _, _)
\* the loop over state.joints building moment, forcesX and forcesY
OrfEquations(joints, i, moment, forcesX, forcesY) ==
  IF i > Len(joints) THEN <<moment, forcesX, forcesY>>
  ELSE LET joint == joints[i]
           m1 == Equation(
                   IF joint.support.x
                   THEN MapSet(moment.terms, VarName(joint.id, "x"),
                               cross(joint.pos, Vector2(One, Zero)))
                   ELSE moment.terms,
                   Add(moment.constant, cross(joint.pos, joint.load)))
           m2 == Equation(
                   IF joint.support.y
                   THEN MapSet(m1.terms, VarName(joint.id, "y"),
                               cross(joint.pos, Vector2(Zero, One)))
                   ELSE m1.terms,
                   m1.constant)
           fx == Equation(
                   IF joint.support.x
                   THEN MapSet(forcesX.terms, VarName(joint.id, "x"), One)
                   ELSE forcesX.terms,
                   Add(forcesX.constant, joint.load.x))
           fy == Equation(
                   IF joint.support.y
                   THEN MapSet(forcesY.terms, VarName(joint.id, "y"), One)
                   ELSE forcesY.terms,
                   Add(forcesY.constant, joint.load.y))
       IN OrfEquations(joints, i + 1, m2, fx, fy)

JointIds(s) == {s.joints[i].id : i \in 1..Len(s.joints)}

RECURSIVE UnpackOrfOtherAxis(_, _, _)
\* the unpacking loop writing each value to the other axis of the vector
UnpackOrfOtherAxis(orf, solution, i) ==
  IF i > Len(solution) THEN orf
  ELSE LET parts == split(solution[i].name)
           id == parseInt(parts[1])
           axis == parts[2]
           vec == orf[id]
           set == IF axis = <<"x">> THEN Vector2(vec.x, solution[i].value)
                  ELSE Vector2(solution[i].value, vec.y)
       IN UnpackOrfOtherAxis([orf EXCEPT ![id] = set], solution, i + 1)

RECURSIVE UnpackOrf(_, _, _)
\* the loop over solution.entries() writing vec[axis] = value
UnpackOrf(orf, solution, i) ==
  IF i > Len(solution) THEN orf
  ELSE LET parts == split(solution[i].name)
           id == parseInt(parts[1])
           axis == parts[2]
           vec == orf[id]
           set == IF axis = <<"x">> THEN Vector2(solution[i].value, vec.y)
                  ELSE Vector2(vec.x, solution[i].value)
       IN UnpackOrf([orf EXCEPT ![id] = set], solution, i + 1)

OrfNull == [isNull |-> TRUE, orf |-> <<>>]

\* the orf map from the solution r, all zero where there is none
OrfMapNeverNull(s, r) ==
  [isNull |-> FALSE,
   orf |-> UnpackOrf([id \in JointIds(s) |-> Vector2(Zero, Zero)], r.solution, 1)]

\* the orf map from the solution r, or null
OrfMap(s, r) ==
  IF ~r.solved THEN OrfNull
  ELSE [isNull |-> FALSE,
        orf |-> UnpackOrf([id \in JointIds(s) |-> Vector2(Zero, Zero)], r.solution, 1)]

EmptyEquation == Equation(<<>>, Zero)

solveORF(s) ==
  OrfMap(s, solveSystemOfEquations(
              OrfEquations(s.joints, 1, EmptyEquation, EmptyEquation, EmptyEquation)))

(***************************************************************************)
(* solveMembers: the method of joints                                      *)
(***************************************************************************)
\* jointLUT.get(id): new Map(state.joints.map(joint => [joint.id, joint]))
JointLUT(s, id) ==
  s.joints[CHOOSE i \in 1..Len(s.joints) :
             s.joints[i].id = id
             /\ \A q \in (i + 1)..Len(s.joints) : s.joints[q].id # id]

RECURSIVE MembersForJoint(_, _, _)
\* membersForJoint.get(id): each member once per endpoint equal to id, in
\* member order, from member i on
MembersForJoint(s, id, i) ==
  IF i > Len(s.members) THEN <<>>
  ELSE LET member == s.members[i]
       IN (IF member.jointIds[1] = id THEN <<member>> ELSE <<>>)
          \o (IF member.jointIds[2] = id THEN <<member>> ELSE <<>>)
          \o MembersForJoint(s, id, i + 1)

\* member.jointIds.find(j => j != joint.id) is undefined for a member whose
\* endpoints both are joint.id, and other.pos then throws
HasOther(member, joint) ==
  member.jointIds[1] # joint.id \/ member.jointIds[2] # joint.id

OtherId(member, joint) ==
  IF member.jointIds[1] # joint.id THEN member.jointIds[1] ELSE member.jointIds[2]

\* other.pos.minus(joint.pos).withMag(1)[axis]
MemberCoeff(s, member, joint, axis) ==
  Axis(withMag(minus(JointLUT(s, OtherId(member, joint)).pos, joint.pos), One), axis)

RECURSIVE MemberTerms(_, _, _, _, _, _)
\* the loop over membersForJoint.get(joint.id) filling terms, from entry k on
MemberTerms(s, joint, axis, incident, k, terms) ==
  IF k > Len(incident) THEN terms
  ELSE MemberTerms(s, joint, axis, incident, k + 1,
                   MapSet(terms, NumToString(incident[k].id),
                          MemberCoeff(s, incident[k], joint, axis)))

JointEquation(s, orf, joint, axis) ==
  Equation(MemberTerms(s, joint, axis, MembersForJoint(s, joint.id, 1), 1, <<>>),
           Add(Axis(joint.load, axis),
               IF joint.id \in DOMAIN orf THEN Axis(orf[joint.id], axis) ELSE Zero))

\* two equations per joint, x then y, in joint order
MemberEquations(s, orf) ==
  [e \in 1..(2 * Len(s.joints)) |->
     JointEquation(s, orf, s.joints[(e + 1) \div 2],
                   IF e % 2 = 1 THEN "x" ELSE "y")]

MembersThrow(s) ==
  \E i \in 1..Len(s.joints) :
     \E k \in 1..Len(s.members) :
        /\ s.joints[i].id \in {s.members[k].jointIds[1], s.members[k].jointIds[2]}
        /\ ~HasOther(s.members[k], s.joints[i])

MembersThrew == [threw |-> TRUE, isNull |-> FALSE, solution |-> <<>>]

MembersNull == [threw |-> FALSE, isNull |-> TRUE, solution |-> <<>>]

\* new Map([...solution.entries()].map(([id, val]) => [parseInt(id), val]))
MemberForceMap(solution) ==
  [id \in {parseInt(solution[i].name) : i \in 1..Len(solution)} |->
     solution[CHOOSE i \in 1..Len(solution) :
                parseInt(solution[i].name) = id
                /\ \A q \in (i + 1)..Len(solution) : parseInt(solution[q].name) # id].value]

\* the trace-producing solveMembers: null when the system has no solution
MembersSolution(r) ==
  IF ~r.solved THEN MembersNull
  ELSE [threw |-> FALSE, isNull |-> FALSE, solution |-> MemberForceMap(r.solution)]

solveMembers(s, orf) ==
  IF MembersThrow(s) THEN MembersThrew
  ELSE MembersSolution(solveSystemOfEquations(MemberEquations(s, orf)))

\* the trace-free solveMembers: solveSystemOfEquations(equations).entries()
\* throws a TypeError when the system has no solution
MembersSolutionPlain(r) ==
  IF ~r.solved THEN MembersThrew
  ELSE [threw |-> FALSE, isNull |-> FALSE, solution |-> MemberForceMap(r.solution)]

solveMembersPlain(s, orf) ==
  IF MembersThrow(s) THEN MembersThrew
  ELSE MembersSolutionPlain(solveSystemOfEquations(MemberEquations(s, orf)))

(***************************************************************************)
(* What solve writes.  The vectors of a structure are objects: joint i's   *)
(* pos and load, and the vector each orf entry refers to.  The structure   *)
(* after a call is the structure with every write applied to its objects.  *)
(***************************************************************************)
PosRef(i) == <<"pos", i>>

LoadRef(i) == <<"load", i>>

\* orf.set(joint.id, joint.load): each entry refers to the joint's own load
OrfRefToLoad(s, id) ==
  LoadRef(CHOOSE i \in 1..Len(s.joints) : s.joints[i].id = id)

\* orf.set(joint.id, new Vector2(0, 0)): each entry refers to an object of its own
OrfRef(s, id) == <<"orf", id>>

\* the writes vec[axis] = value of the loop over solution.entries(), in order
OrfWrites(s, solution) ==
  [k \in 1..Len(solution) |->
     [ref |-> OrfRef(s, parseInt(split(solution[k].name)[1])),
      axis |-> split(solution[k].name)[2],
      value |-> solution[k].value]]

RECURSIVE Written(_, _, _, _)
\* the object ref, holding vec, after the writes from the k-th on
Written(ref, vec, writes, k) ==
  IF k > Len(writes) THEN vec
  ELSE Written(ref,
               IF writes[k].ref # ref THEN vec
               ELSE IF writes[k].axis = <<"x">> THEN Vector2(writes[k].value, vec.y)
               ELSE Vector2(vec.x, writes[k].value),
               writes, k + 1)

\* the structure after the writes of solveORF
WithWrites(s, writes) ==
  State([i \in 1..Len(s.joints) |->
           [s.joints[i] EXCEPT !.pos = Written(PosRef(i), @, writes, 1),
                               !.load = Written(LoadRef(i), @, writes, 1)]],
        s.members)

\* solveORF writes nothing when the system has no solution
InputAfterSolveORF(s, r) ==
  IF ~r.solved THEN s ELSE WithWrites(s, OrfWrites(s, r.solution))

\* [...member.jointIds].sort() sorts a copy: member.jointIds is as it was
JointIdsAfterSort(member) == member.jointIds

\* the structure after isSane: its loops write to local collections only
InputAfterIsSane(s) ==
  State(s.joints,
        [k \in 1..Len(s.members) |->
           [s.members[k] EXCEPT !.jointIds = JointIdsAfterSort(s.members[k])]])

\* solve stops after isSane on a critical problem; solveMembers writes to
\* local collections only
InputAfterStages(s, problems) ==
  IF HasCritical(problems) THEN s
  ELSE InputAfterSolveORF(s, solveSystemOfEquations(
         OrfEquations(s.joints, 1, EmptyEquation, EmptyEquation, EmptyEquation)))

\* the structure passed to solve, after solve
InputAfterSolve(s) == InputAfterStages(InputAfterIsSane(s), isSane(s))

\* state.members.filter(...) builds a new array: state.members is as it was
MembersAfterFilter(members, id) == members

\* the structure a fix closes over, after the fix was called
InputAfterFix(s, problem) ==
  State(s.joints, MembersAfterFilter(s.members, problem.fix.memberId))

(***************************************************************************)
(* solve                                                                   *)
(***************************************************************************)
SolveThrew == [kind |-> "threw", problems |-> <<>>, hasOrf |-> FALSE, orf |-> <<>>,
               hasMemberForces |-> FALSE, memberForces |-> <<>>]

Solution(problems, hasOrf, orf, hasMemberForces, memberForces) ==
  [kind |-> "returned", problems |-> problems, hasOrf |-> hasOrf, orf |-> orf,
   hasMemberForces |-> hasMemberForces, memberForces |-> memberForces]

OrfProblem ==
  Problem("Structure is not statically determinate (could not solve for outside reaction forces)",
          <<>>, <<>>, TRUE, NoFix)

MembersProblem ==
  Problem("Structure is not statically determinate (could not solve for member forces)",
          <<>>, <<>>, TRUE, NoFix)

\* solve returning the problems alone when the member stage fails, as it
\* does when the reaction stage fails
solveDroppingOrf(s) ==
  LET problems == isSane(s)
      o == solveORF(s)
      mf == solveMembers(s, o.orf)
  IN IF HasCritical(problems) THEN Solution(problems, FALSE, <<>>, FALSE, <<>>)
     ELSE IF o.isNull
     THEN Solution(Append(problems, OrfProblem), FALSE, <<>>, FALSE, <<>>)
     ELSE IF mf.threw THEN SolveThrew
     ELSE IF mf.isNull
     THEN Solution(Append(problems, MembersProblem), FALSE, <<>>, FALSE, <<>>)
     ELSE Solution(problems, TRUE, o.orf, TRUE, mf.solution)

\* solve from the call of solveMembers on: mf is its result
AfterSolveMembers(problems, orf, mf) ==
  IF mf.threw THEN SolveThrew
  ELSE IF mf.isNull
  THEN Solution(Append(problems, MembersProblem), TRUE, orf, FALSE, <<>>)
  ELSE Solution(problems, TRUE, orf, TRUE, mf.solution)

\* solve from the call of solveORF on: o is its result
AfterSolveORF(s, problems, o) ==
  IF o.isNull
  THEN Solution(Append(problems, OrfProblem), FALSE, <<>>, FALSE, <<>>)
  ELSE AfterSolveMembers(problems, o.orf, solveMembers(s, o.orf))

\* solve from the call of isSane on: problems is its result
AfterIsSane(s, problems) ==
  IF HasCritical(problems) THEN Solution(problems, FALSE, <<>>, FALSE, <<>>)
  ELSE AfterSolveORF(s, problems, solveORF(s))

\* the trace-producing solve
solve(s) == AfterIsSane(s, isSane(s))

AfterSolveORFPlain(s, problems, o) ==
  IF o.isNull
  THEN Solution(Append(problems, OrfProblem), FALSE, <<>>, FALSE, <<>>)
  ELSE AfterSolveMembers(problems, o.orf, solveMembersPlain(s, o.orf))

AfterIsSanePlain(s, problems) ==
  IF HasCritical(problems) THEN Solution(problems, FALSE, <<>>, FALSE, <<>>)
  ELSE AfterSolveORFPlain(s, problems, solveORF(s))

\* the trace-free solve
solvePlain(s) == AfterIsSanePlain(s, isSane(s))

(***************************************************************************)
(* The bounded structures solve is run on.  Joint i has id i and sits at   *)
(* the i-th point of a layout; member k has id MaxJoints + k.              *)
(***************************************************************************)
MaxJoints == 4

MaxLoad == 1

\* a rectangle with 3-4-5 diagonals, a collinear row, and a layout whose
\* second joint lies on the first
Layouts ==
  { << <<0, 0>>, <<3, 0>>, <<0, 4>>, <<3, 4>>, <<6, 0>> >>,
    << <<0, 0>>, <<3, 0>>, <<6, 0>>, <<3, 4>>, <<6, 4>> >>,
    << <<0, 0>>, <<0, 0>>, <<3, 0>>, <<3, 4>>, <<0, 4>> >> }

\* all names distinct; the last joint's name blank; the last joint named as the first
NameSchemes == {"distinct", "blank", "reused"}

Letters == <<"A", "B", "C", "D", "E">>

JointName(scheme, i, n) ==
  IF i = n /\ scheme = "blank" THEN <<" ">>
  ELSE IF i = n /\ n > 1 /\ scheme = "reused" THEN <<Letters[1]>>
  ELSE <<Letters[i]>>

NoSupport == [x |-> FALSE, y |-> FALSE]

SupportKinds == [x : BOOLEAN, y : BOOLEAN]

Pin == [x |-> TRUE, y |-> TRUE]

\* the first joint is free or pinned, the second has any support, the others none
SupportOf(i, s1, s2) == IF i = 1 THEN s1 ELSE IF i = 2 THEN s2 ELSE NoSupport

\* no load, a load straight down, a load down and sideways
Loads ==
  {Vector2(Zero, Zero), Vector2(Zero, Num(-MaxLoad)), Vector2(Num(MaxLoad), Num(-MaxLoad))}

\* the last joint carries the load
LoadOf(i, n, load) == IF i = n THEN load ELSE Vector2(Zero, Zero)

IsSquare(k) == \E r \in 0..k : r * r = k

\* the pairs of joints a member may join: those an integer distance apart
Pairs(layout, n) ==
  {p \in (1..n) \X (1..n) :
     /\ p[1] < p[2]
     /\ IsSquare((layout[p[1]][1] - layout[p[2]][1]) * (layout[p[1]][1] - layout[p[2]][1])
                 + (layout[p[1]][2] - layout[p[2]][2]) * (layout[p[1]][2] - layout[p[2]][2]))}

RECURSIVE SetToSeq(_)
\* the pairs of a set in increasing order
SetToSeq(ps) ==
  IF ps = {} THEN <<>>
  ELSE LET p == CHOOSE x \in ps :
                  \A y \in ps : x[1] < y[1] \/ (x[1] = y[1] /\ x[2] <= y[2])
       IN <<p>> \o SetToSeq(ps \ {p})

MaxMissing == 1

\* the member sets tried: all pairs but at most MaxMissing of them
MemberSets(layout, n) ==
  {ps \in SUBSET Pairs(layout, n) :
     Cardinality(Pairs(layout, n) \ ps) <= MaxMissing}

\* what follows the plain members: nothing, a member from joint 1 to itself,
\* or the first member again with its endpoints swapped
Extras == {"none", "loop", "again"}

MemberList(ps, extra) ==
  LET base == SetToSeq(ps)
      plain == [k \in 1..Len(base) |-> Member(MaxJoints + k, base[k][1], base[k][2])]
      nextId == MaxJoints + Len(base) + 1
  IN IF extra = "loop" THEN Append(plain, Member(nextId, 1, 1))
     ELSE IF extra = "again" /\ Len(base) > 0
     THEN Append(plain, Member(nextId, base[1][2], base[1][1]))
     ELSE plain

Structure(layout, n, scheme, s1, s2, load, ps, extra) ==
  State([i \in 1..n |->
           Joint(i, JointName(scheme, i, n),
                 Vector2(Num(layout[i][1]), Num(layout[i][2])),
                 LoadOf(i, n, load), SupportOf(i, s1, s2))],
        MemberList(ps, extra))

NotRun == [kind |-> "none", problems |-> <<>>, hasOrf |-> FALSE, orf |-> <<>>,
           hasMemberForces |-> FALSE, memberForces |-> <<>>]

NoJson == [t |-> "none"]

NotParsed == [kind |-> "none"]

NotValidated == [ran |-> FALSE, problems |-> <<>>]

NotFixed == [kind |-> "none"]

NoEquations == <<>>

NotSolved == [kind |-> "none"]

\* no fix has been applied to a given structure
NoLoop == [given |-> State(<<>>, <<>>), applied |-> 0]

\* no editor is open
NoEditor == [variant |-> "none", nextId |-> 0, edits |-> 0]

NoVector == [kind |-> "none"]

NotScaled == [kind |-> "none"]

(***************************************************************************)
(* Spec: a structure is given, and the two variants of solve run on it.    *)
(***************************************************************************)
Init ==
  /\ \E layout \in Layouts, n \in 1..MaxJoints, scheme \in NameSchemes :
        \E s1 \in {NoSupport, Pin}, s2 \in SupportKinds, load \in Loads :
           \E ps \in MemberSets(layout, n), extra \in Extras :
              state = Structure(layout, n, scheme, s1, s2, load, ps, extra)
  /\ sol = NotRun
  /\ solT = NotRun
  /\ json = NoJson
  /\ parsed = NotParsed
  /\ sane = NotValidated
  /\ fixed = NotFixed
  /\ after = state
  /\ eqs = NoEquations
  /\ eqSol = NotSolved
  /\ vecIn = NoVector
  /\ vecOut = NotScaled
  /\ ed = NoEditor
  /\ loop = NoLoop

\* solve of the trace-producing variant: sane is what isSane returned to it,
\* after is the structure it was given as it is when solve returns
Solve ==
  /\ sol.kind = "none"
  /\ sol' = solve(state)
  /\ sane' = [ran |-> TRUE, problems |-> isSane(state)]
  /\ after' = InputAfterSolve(after)
  /\ UNCHANGED <<state, solT, json, parsed, fixed, eqs, eqSol,
               vecIn, vecOut, ed, loop>>

\* solve of the trace-free variant
SolvePlain ==
  /\ sol.kind # "none"
  /\ solT.kind = "none"
  /\ solT' = solvePlain(state)
  /\ after' = InputAfterSolve(after)
  /\ UNCHANGED <<state, sol, json, parsed, sane, fixed, eqs, eqSol,
               vecIn, vecOut, ed, loop>>

Next == Solve \/ SolvePlain

Spec == Init /\ [][Next]_vars

(***************************************************************************)
(* Claims about solve                                                      *)
(***************************************************************************)
Last(seq) == seq[Len(seq)]

Front(seq) == SubSeq(seq, 1, Len(seq) - 1)

\* the reaction stage is reached and succeeds, and the member-force system
\* has no solution
MemberSystemFails ==
  /\ ~HasCritical(isSane(state))
  /\ ~solveORF(state).isNull
  /\ ~MembersThrow(state)
  /\ ~solveSystemOfEquations(MemberEquations(state, solveORF(state).orf)).solved

\* C1: on every structure with unique ids and existing member endpoints,
\* solve (either variant) returns a Solution and never throws.
C1_SolveNeverThrows == sol.kind # "threw" /\ solT.kind # "threw"

\* the four shapes of a returned Solution
ShapeInvalid(r) ==
  /\ HasCritical(isSane(state))
  /\ r.problems = isSane(state)
  /\ ~r.hasOrf /\ ~r.hasMemberForces

ShapeReactionsUnsolvable(r) ==
  /\ ~HasCritical(isSane(state))
  /\ Len(r.problems) > 0
  /\ Last(r.problems) = OrfProblem
  /\ Front(r.problems) = isSane(state)
  /\ ~r.hasOrf /\ ~r.hasMemberForces

ShapeMembersUnsolvable(r) ==
  /\ ~HasCritical(isSane(state))
  /\ Len(r.problems) > 0
  /\ Last(r.problems) = MembersProblem
  /\ Front(r.problems) = isSane(state)
  /\ r.hasOrf /\ ~r.hasMemberForces

ShapeSolved(r) ==
  /\ ~HasCritical(r.problems)
  /\ r.problems = isSane(state)
  /\ r.hasOrf /\ r.hasMemberForces

ShapeCount(r) ==
  Cardinality({k \in 1..4 :
     \/ k = 1 /\ ShapeInvalid(r)
     \/ k = 2 /\ ShapeReactionsUnsolvable(r)
     \/ k = 3 /\ ShapeMembersUnsolvable(r)
     \/ k = 4 /\ ShapeSolved(r)})

\* C2: every Solution the trace-producing solve returns has exactly one of
\* the shapes Invalid, ReactionsUnsolvable, MembersUnsolvable and Solved;
\* memberForces present implies orf present, and memberForces is present
\* exactly when no problem of the list is critical.
C2_FourShapes ==
  sol.kind = "returned" =>
    /\ ShapeCount(sol) = 1
    /\ sol.hasMemberForces => sol.hasOrf
    /\ sol.hasMemberForces <=> ~HasCritical(sol.problems)

\* a run that ended MembersUnsolvable: reactions present, member forces absent
C2_Witness == sol.kind = "returned" /\ ShapeMembersUnsolvable(sol)

MembersUnsolvableResult(r) ==
  /\ r.kind = "returned"
  /\ Len(r.problems) > 0
  /\ Last(r.problems) = MembersProblem
  /\ r.hasOrf
  /\ r.orf = solveORF(state).orf
  /\ ~r.hasMemberForces

\* C3: when the reaction stage succeeds and the member-force system has no
\* unique solution, solve (either variant) appends the critical problem
\* "could not solve for member forces" and returns the reaction forces
\* without member forces.
C3_MembersUnsolvableKeepsOrf ==
  MemberSystemFails =>
    /\ sol.kind # "none" => MembersUnsolvableResult(sol)
    /\ solT.kind # "none" => MembersUnsolvableResult(solT)

ZeroMembersResult(r) ==
  /\ r.kind = "returned"
  /\ Len(r.problems) = 1
  /\ r.problems[1].critical
  /\ ~r.hasOrf /\ ~r.hasMemberForces

\* C4: on a structure with no member, whatever its joints, solve returns
\* exactly one problem, a critical one, and neither orf nor memberForces.
C4_ZeroMembers ==
  Len(state.members) = 0 =>
    /\ sol.kind # "none" => ZeroMembersResult(sol)
    /\ solT.kind # "none" => ZeroMembersResult(solT)

\* solve has run on two joints at one point, one with a blank name, no member
C4_Witness ==
  /\ Len(state.members) = 0
  /\ Len(state.joints) = 2
  /\ state.joints[1].pos = state.joints[2].pos
  /\ trim(state.joints[2].name) = <<>>
  /\ sol.kind = "returned"
  /\ solT.kind = "returned"

\* the force member k puts on joint i along axis, by the sign convention:
\* its value times the unit vector from the joint to its other endpoint
MemberPull(r, i, k, axis) ==
  LET joint == state.joints[i]
      member == state.members[k]
      other == FindJoint(state, OtherId(member, joint))
  IN IF joint.id \in {member.jointIds[1], member.jointIds[2]}
     THEN Mul(r.memberForces[member.id],
              Axis(withMag(minus(other.pos, joint.pos), One), axis))
     ELSE Zero

\* load + reaction + sum of the member pulls at joint i along axis
JointResidual(r, i, axis) ==
  Add(Add(Axis(state.joints[i].load, axis), Axis(r.orf[state.joints[i].id], axis)),
      Sum([k \in 1..Len(state.members) |-> MemberPull(r, i, k, axis)],
          Len(state.members)))

JointsInEquilibrium(r) ==
  \A i \in 1..Len(state.joints) : \A axis \in {"x", "y"} :
     JointResidual(r, i, axis) = Zero

\* C5: whenever solve returns memberForces, every joint is in equilibrium on
\* both axes: load + reaction + member pulls = 0.
C5_JointEquilibrium ==
  (sol.kind = "returned" /\ sol.hasMemberForces) => JointsInEquilibrium(sol)

\* the sums of global equilibrium over all joints
TotalForce(r, axis) ==
  Sum([i \in 1..Len(state.joints) |->
         Add(Axis(state.joints[i].load, axis), Axis(r.orf[state.joints[i].id], axis))],
      Len(state.joints))

TotalMoment(r) ==
  Sum([i \in 1..Len(state.joints) |->
         cross(state.joints[i].pos,
               plus(state.joints[i].load, r.orf[state.joints[i].id]))],
      Len(state.joints))

GlobalEquilibrium(r) ==
  /\ TotalForce(r, "x") = Zero
  /\ TotalForce(r, "y") = Zero
  /\ TotalMoment(r) = Zero

\* C6: whenever solve returns reaction forces for a structure that passed
\* validation with 2J = M + R, the reactions balance the loads: the forces
\* sum to zero on both axes and the moments about the origin sum to zero.
C6_GlobalEquilibrium ==
  (/\ sol.kind = "returned"
   /\ sol.hasOrf
   /\ isSane(state) = <<>>
   /\ 2 * CountJ(state) = CountM(state) + CountR(state))
  => GlobalEquilibrium(sol)

(***************************************************************************)
(* parseState.  A JavaScript value is a record: t is what typeof and       *)
(* Array.isArray tell apart, and the payload is in a field of its own (a   *)
(* number's num, an array's elems, an object's props as a record).         *)
(* BadJson is a text JSON.parse throws on.                                 *)
(***************************************************************************)
Undefined == [t |-> "undefined"]

Null == [t |-> "null"]

JNum(n) == [t |-> "number", num |-> n]

JStr(str) == [t |-> "string", str |-> str]

JBool(b) == [t |-> "boolean", bool |-> b]

JArr(elems) == [t |-> "array", elems |-> elems]

JObj(props) == [t |-> "object", props |-> props]

BadJson == [t |-> "malformed"]

typeof(val) == IF val.t \in {"null", "array", "object"} THEN "object" ELSE val.t

isArray(val) == val.t = "array"

\* const { key } = val throws a TypeError when val is null or undefined
Destructures(val) == val.t \notin {"undefined", "null"}

\* the property the destructuring reads: undefined unless val is an object
\* that has it
Prop(val, key) ==
  IF val.t = "object" /\ key \in DOMAIN val.props THEN val.props[key] ELSE Undefined

ParseThrew == [kind |-> "threw"]

ParseNull == [kind |-> "null"]

ParseValue(val) == [kind |-> "value", value |-> val]

parseVector2(jointObject) ==
  IF ~Destructures(jointObject) THEN ParseThrew
  ELSE LET x == Prop(jointObject, "x")
           y == Prop(jointObject, "y")
       IN IF typeof(x) # "number" \/ typeof(y) # "number" THEN ParseNull
          ELSE ParseValue(Vector2(Num(x.num), Num(y.num)))

parseJoint(jointObject) ==
  IF ~Destructures(jointObject) THEN ParseThrew
  ELSE LET id == Prop(jointObject, "id")
           name == Prop(jointObject, "name")
           support == Prop(jointObject, "support")
           posVec == parseVector2(Prop(jointObject, "pos"))
           loadVec == parseVector2(Prop(jointObject, "load"))
           x == Prop(support, "x")
           y == Prop(support, "y")
       IN IF posVec.kind = "threw" \/ loadVec.kind = "threw" THEN ParseThrew
          ELSE IF \/ typeof(id) # "number"
                  \/ typeof(name) # "string"
                  \/ posVec.kind = "null"
                  \/ loadVec.kind = "null"
                  \/ typeof(support) # "object"
          THEN ParseNull
          ELSE IF ~Destructures(support) THEN ParseThrew
          ELSE IF typeof(x) # "boolean" \/ typeof(y) # "boolean" THEN ParseNull
          ELSE ParseValue(Joint(id.num, name.str, posVec.value, loadVec.value,
                                [x |-> x.bool, y |-> y.bool]))

parseMember(jointObject) ==
  IF ~Destructures(jointObject) THEN ParseThrew
  ELSE LET id == Prop(jointObject, "id")
           jointIds == Prop(jointObject, "jointIds")
       IN IF \/ typeof(id) # "number"
             \/ ~isArray(jointIds)
             \/ Len(jointIds.elems) # 2
          THEN ParseNull
          ELSE IF typeof(jointIds.elems[1]) # "number" \/ typeof(jointIds.elems[2]) # "number"
          THEN ParseNull
          ELSE ParseValue(Member(id.num, jointIds.elems[1].num, jointIds.elems[2].num))

\* the loop over joints with the set jointIds: a joint id seen twice
JointIdRepeats(joints) ==
  \E i, k \in 1..Len(joints) : i < k /\ joints[i].id = joints[k].id

\* the loop over members with the set memberIds: the test that returns null
MemberRejected(joints, members, k) ==
  LET jointIds == {joints[i].id : i \in 1..Len(joints)}
      memberIds == {members[q].id : q \in 1..(k - 1)}
      member == members[k]
  IN \/ member.id \in jointIds
     \/ member.id \in memberIds
     \/ ~(member.jointIds[1] \in jointIds /\ member.jointIds[2] \in jointIds)

parseState(input) ==
  IF input = BadJson THEN ParseNull
  ELSE IF ~Destructures(input) THEN ParseThrew
  ELSE LET jointsObject == Prop(input, "joints")
           membersObject == Prop(input, "members")
           jr == [i \in 1..Len(jointsObject.elems) |-> parseJoint(jointsObject.elems[i])]
           mr == [i \in 1..Len(membersObject.elems) |-> parseMember(membersObject.elems[i])]
           joints == [i \in 1..Len(jr) |-> jr[i].value]
           members == [i \in 1..Len(mr) |-> mr[i].value]
       IN IF ~isArray(jointsObject) \/ ~isArray(membersObject) THEN ParseNull
          ELSE IF \E i \in 1..Len(jr) : jr[i].kind = "threw" THEN ParseThrew
          ELSE IF \E i \in 1..Len(mr) : mr[i].kind = "threw" THEN ParseThrew
          ELSE IF \/ \E i \in 1..Len(jr) : jr[i].kind = "null"
                  \/ \E i \in 1..Len(mr) : mr[i].kind = "null"
          THEN ParseNull
          ELSE IF JointIdRepeats(joints) THEN ParseNull
          ELSE IF \E k \in 1..Len(members) : MemberRejected(joints, members, k)
          THEN ParseNull
          ELSE ParseValue(State(joints, members))

(***************************************************************************)
(* The bounded texts parseState is run on, as the values JSON.parse gives. *)
(***************************************************************************)
MaxItems == 2

MaxJsonId == 2

JVec(x, y) == JObj([x |-> JNum(x), y |-> JNum(y)])

JSupport(x, y) == JObj([x |-> JBool(x), y |-> JBool(y)])

GoodJoint(id) ==
  JObj([id |-> JNum(id), name |-> JStr(<<"A">>), pos |-> JVec(id, 0),
        load |-> JVec(0, -1), support |-> JSupport(TRUE, FALSE)])

\* elements of joints that are no joint record, or lack a field, or hold a
\* field of the wrong type
BadJoints ==
  { Null,
    JNum(7),
    JObj([id |-> JNum(1), name |-> JStr(<<"A">>), load |-> JVec(0, 0),
          support |-> JSupport(TRUE, TRUE)]),
    JObj([id |-> JNum(1), name |-> JStr(<<"A">>), pos |-> JVec(0, 0),
          support |-> JSupport(TRUE, TRUE)]),
    JObj([id |-> JNum(1), name |-> JStr(<<"A">>), pos |-> JVec(0, 0),
          load |-> JVec(0, 0), support |-> Null]),
    JObj([id |-> JNum(1), name |-> JStr(<<"A">>), pos |-> JVec(0, 0),
          load |-> JVec(0, 0)]),
    JObj([id |-> JNum(1), name |-> JStr(<<"A">>), pos |-> JVec(0, 0),
          load |-> JVec(0, 0),
          support |-> JObj([x |-> JNum(1), y |-> JBool(TRUE)])]),
    JObj([id |-> JNum(1), name |-> JStr(<<"A">>),
          pos |-> JObj([x |-> JStr(<<"0">>), y |-> JNum(0)]),
          load |-> JVec(0, 0), support |-> JSupport(TRUE, TRUE)]),
    JObj([id |-> JStr(<<"1">>), name |-> JStr(<<"A">>), pos |-> JVec(0, 0),
          load |-> JVec(0, 0), support |-> JSupport(TRUE, TRUE)]),
    JObj([id |-> JNum(1), name |-> JNum(5), pos |-> JVec(0, 0),
          load |-> JVec(0, 0), support |-> JSupport(TRUE, TRUE)]) }

JointValues == {GoodJoint(id) : id \in 1..MaxJsonId} \cup BadJoints

GoodMember(id, a, b) == JObj([id |-> JNum(id), jointIds |-> JArr(<<JNum(a), JNum(b)>>)])

BadMembers ==
  { Null,
    JObj([jointIds |-> JArr(<<JNum(1), JNum(2)>>)]),
    JObj([id |-> JNum(9)]),
    JObj([id |-> JNum(9), jointIds |-> JNum(1)]),
    JObj([id |-> JNum(9), jointIds |-> JArr(<<JNum(1), JNum(2), JNum(1)>>)]),
    JObj([id |-> JNum(9), jointIds |-> JArr(<<JNum(1), JStr(<<"2">>)>>)]) }

\* member ids MaxJsonId (a joint id when that joint is present) and MaxJsonId + 1
MemberValues ==
  {GoodMember(id, p[1], p[2]) :
     id \in MaxJsonId..(MaxJsonId + 1),
     p \in {<<1, 1>>, <<1, MaxJsonId>>, <<MaxJsonId, 1>>}}
  \cup BadMembers

\* the sequences over S of length at most n
SeqsUpTo(S, n) == UNION {[1..k -> S] : k \in 0..n}

\* top levels that hold no two arrays
BadTops ==
  { BadJson, Null, JNum(1), JStr(<<"A">>), JArr(<<>>), JObj([joints |-> JArr(<<>>)]),
    JObj([members |-> JArr(<<>>)]),
    JObj([joints |-> JObj([id |-> JNum(1)]), members |-> JArr(<<>>)]),
    JObj([joints |-> JArr(<<>>), members |-> Null]) }

EmptyState == State(<<>>, <<>>)

(***************************************************************************)
(* SpecParse: a text is given, and parseState runs on it.                  *)
(***************************************************************************)
InitParse ==
  /\ \/ json \in BadTops
     \/ \E js \in SeqsUpTo(JointValues, MaxItems), ms \in SeqsUpTo(MemberValues, MaxItems) :
           json = JObj([joints |-> JArr(js), members |-> JArr(ms)])
  /\ parsed = NotParsed
  /\ state = EmptyState
  /\ sol = NotRun
  /\ solT = NotRun
  /\ sane = NotValidated
  /\ fixed = NotFixed
  /\ after = state
  /\ eqs = NoEquations
  /\ eqSol = NotSolved
  /\ vecIn = NoVector
  /\ vecOut = NotScaled
  /\ ed = NoEditor
  /\ loop = NoLoop

Parse ==
  /\ parsed.kind = "none"
  /\ parsed' = parseState(json)
  /\ UNCHANGED <<state, sol, solT, json, sane, fixed, after, eqs, eqSol,
               vecIn, vecOut, ed, loop>>

NextParse == Parse

SpecParse == InitParse /\ [][NextParse]_vars

(***************************************************************************)
(* Claims about parseState                                                 *)
(***************************************************************************)
\* C8: parseState is total: on every text it returns a structure or null
\* and never throws to the caller.
C8_ParseNeverThrows == parsed.kind # "threw"

\* what the serialized form asks of a vector, a joint, a member, the top level
WellFormedVector(val) ==
  /\ val.t = "object"
  /\ typeof(Prop(val, "x")) = "number"
  /\ typeof(Prop(val, "y")) = "number"

WellFormedJoint(val) ==
  /\ val.t = "object"
  /\ typeof(Prop(val, "id")) = "number"
  /\ typeof(Prop(val, "name")) = "string"
  /\ WellFormedVector(Prop(val, "pos"))
  /\ WellFormedVector(Prop(val, "load"))
  /\ Prop(val, "support").t = "object"
  /\ typeof(Prop(Prop(val, "support"), "x")) = "boolean"
  /\ typeof(Prop(Prop(val, "support"), "y")) = "boolean"

WellFormedMember(val) ==
  /\ val.t = "object"
  /\ typeof(Prop(val, "id")) = "number"
  /\ isArray(Prop(val, "jointIds"))
  /\ Len(Prop(val, "jointIds").elems) = 2
  /\ \A k \in 1..2 : typeof(Prop(val, "jointIds").elems[k]) = "number"

HasArrays(val) ==
  /\ val.t = "object"
  /\ isArray(Prop(val, "joints"))
  /\ isArray(Prop(val, "members"))

WellFormed(val) ==
  /\ HasArrays(val)
  /\ \A i \in 1..Len(Prop(val, "joints").elems) :
        WellFormedJoint(Prop(val, "joints").elems[i])
  /\ \A i \in 1..Len(Prop(val, "members").elems) :
        WellFormedMember(Prop(val, "members").elems[i])

\* C9: parseState returns null whenever the top level lacks the two arrays,
\* or a joint lacks a numeric id, a string name, a pos or load with numeric
\* x and y or a support with boolean x and y, or a member lacks a numeric id
\* or a pair of numeric jointIds.
C9_MalformedYieldsNull ==
  (parsed.kind # "none" /\ ~WellFormed(json)) => parsed.kind = "null"

\* the data-model invariants of a parsed structure
UniqueIds(seq) == \A i, k \in 1..Len(seq) : i # k => seq[i].id # seq[k].id

StructureInvariant(s) ==
  /\ UniqueIds(s.joints)
  /\ UniqueIds(s.members)
  /\ \A k \in 1..Len(s.members) :
        /\ s.members[k].id \notin JointIds(s)
        /\ s.members[k].jointIds[1] \in JointIds(s)
        /\ s.members[k].jointIds[2] \in JointIds(s)

\* the numeric ids the text gives its joints and members, whatever else
\* their records hold
NumericIds(elems) ==
  {i \in 1..Len(elems) : typeof(Prop(elems[i], "id")) = "number"}

TextViolatesIds(val) ==
  /\ HasArrays(val)
  /\ LET js == Prop(val, "joints").elems
         ms == Prop(val, "members").elems
         jointIds == {Prop(js[i], "id").num : i \in NumericIds(js)}
     IN \/ \E i, k \in NumericIds(js) :
              i # k /\ Prop(js[i], "id").num = Prop(js[k], "id").num
        \/ \E i, k \in NumericIds(ms) :
              i # k /\ Prop(ms[i], "id").num = Prop(ms[k], "id").num
        \/ \E i \in NumericIds(ms) : Prop(ms[i], "id").num \in jointIds
        \/ \E i \in 1..Len(ms) :
              /\ WellFormedMember(ms[i])
              /\ \E k \in 1..2 : Prop(ms[i], "jointIds").elems[k].num \notin jointIds

\* C10: every structure parseState returns has distinct joint ids, distinct
\* member ids, no member id that is a joint id, and member endpoints among
\* the joint ids; and every text that violates one of these yields null.
C10_ParsedIdsSound ==
  /\ parsed.kind = "value" => StructureInvariant(parsed.value)
  /\ (parsed.kind # "none" /\ TextViolatesIds(json)) => parsed.kind = "null"

(***************************************************************************)
(* SpecSane: structures that exercise the validator (blank and repeated    *)
(* names, joints at one position, members from a joint to itself, members  *)
(* repeated in either direction); solve runs, then one of the fixes its    *)
(* problems carry is called.  Joint i has id SaneIds[i], member k has id   *)
(* MaxSaneJoints + k, and the last joint carries a load straight down.     *)
(***************************************************************************)
MaxSaneJoints == 3

MaxSaneMembers == 3

\* the names joint i may have: empty, a blank, "A", "B" or " A"
SaneNames(i) ==
  IF i = 1 THEN {<<"A">>, <<>>}
  ELSE IF i = 2 THEN {<<"A">>, <<"B">>, <<" ">>}
  ELSE {<<"A">>, <<"B">>, <<>>, <<" ", "A">>}

\* the positions joint i may have
SanePoints(i) ==
  IF i = 1 THEN {<<0, 0>>}
  ELSE IF i = 2 THEN {<<0, 0>>, <<3, 0>>}
  ELSE {<<0, 0>>, <<3, 0>>, <<0, 4>>}

Roller == [x |-> FALSE, y |-> TRUE]

\* the endpoint pairs a member may have
SanePairs(n) ==
  {p \in (1..n) \X (1..n) : p \in {<<1, 1>>, <<1, 2>>, <<2, 1>>, <<1, 3>>, <<2, 3>>}}

\* the ids of the joints: one digit, two digits (a string sort puts "10"
\* before "2"), negative
SaneIds == <<2, 10, -1>>

SaneStructure(n, names, points, s1, s2, ms) ==
  State([i \in 1..n |->
           Joint(SaneIds[i], names[i], Vector2(Num(points[i][1]), Num(points[i][2])),
                 IF i = n THEN Vector2(Zero, Num(-MaxLoad)) ELSE Vector2(Zero, Zero),
                 SupportOf(i, s1, s2))],
        [k \in 1..Len(ms) |->
           Member(MaxSaneJoints + k, SaneIds[ms[k][1]], SaneIds[ms[k][2]])])

InitSane ==
  /\ \E n \in 1..MaxSaneJoints :
        \E names \in {f \in [1..n -> SaneNames(1) \cup SaneNames(2) \cup SaneNames(3)] :
                         \A i \in 1..n : f[i] \in SaneNames(i)} :
           \E points \in {f \in [1..n -> SanePoints(3)] :
                             \A i \in 1..n : f[i] \in SanePoints(i)} :
              \E s1 \in {NoSupport, Pin}, s2 \in {NoSupport, Roller} :
                 \E ms \in SeqsUpTo(SanePairs(n), MaxSaneMembers) :
                    state = SaneStructure(n, names, points, s1, s2, ms)
  /\ sol = NotRun
  /\ solT = NotRun
  /\ json = NoJson
  /\ parsed = NotParsed
  /\ sane = NotValidated
  /\ fixed = NotFixed
  /\ after = state
  /\ eqs = NoEquations
  /\ eqSol = NotSolved
  /\ vecIn = NoVector
  /\ vecOut = NotScaled
  /\ ed = NoEditor
  /\ loop = NoLoop

\* problem.fix() of the k-th problem solve returned
Fix ==
  /\ sol.kind = "returned"
  /\ fixed.kind = "none"
  /\ \E k \in 1..Len(sol.problems) :
        /\ sol.problems[k].fix.present
        /\ fixed' = [kind |-> "returned", index |-> k,
                     value |-> CallFix(after, sol.problems[k])]
        /\ after' = InputAfterFix(after, sol.problems[k])
  /\ UNCHANGED <<state, sol, solT, json, parsed, sane, eqs, eqSol,
               vecIn, vecOut, ed, loop>>

NextSane == Solve \/ Fix

SpecSane == InitSane /\ [][NextSane]_vars

(***************************************************************************)
(* Claims about the validator                                              *)
(***************************************************************************)
\* the kinds of problem the validator reports
IsKind(problem, kind) == problem.message.kind = kind

KindCount(problems, kind) ==
  Cardinality({k \in 1..Len(problems) : IsKind(problems[k], kind)})

\* what rules 2 to 5 look for, stated on the structure
BlankName(joint) == \A c \in 1..Len(joint.name) : joint.name[c] = " "

NameRepeats(s, i) ==
  /\ ~BlankName(s.joints[i])
  /\ \E q \in 1..(i - 1) : s.joints[q].name = s.joints[i].name

Overlaps(s, i) == \E q \in 1..(i - 1) : s.joints[q].pos = s.joints[i].pos

Degenerate(member) == member.jointIds[1] = member.jointIds[2]

SameEnds(m1, m2) ==
  {m1.jointIds[1], m1.jointIds[2]} = {m2.jointIds[1], m2.jointIds[2]}

Repeated(s, k) == \E q \in 1..(k - 1) : SameEnds(s.members[q], s.members[k])

RulesTwoToFiveClean(s) ==
  /\ \A i \in 1..Len(s.joints) :
        ~BlankName(s.joints[i]) /\ ~NameRepeats(s, i) /\ ~Overlaps(s, i)
  /\ \A k \in 1..Len(s.members) : ~Degenerate(s.members[k]) /\ ~Repeated(s, k)

\* R: one for each true support.x and one for each true support.y
Reactions(s) ==
  Cardinality({p \in (1..Len(s.joints)) \X {"x", "y"} :
                 IF p[2] = "x" THEN s.joints[p[1]].support.x
                 ELSE s.joints[p[1]].support.y})

Undetermined(s) == 2 * Len(s.joints) # Len(s.members) + Reactions(s)

DeterminacyKind == "Structure is not statically determinate"

\* C11: on a structure with a member, the validator reports the critical
\* "not statically determinate (J, M, R)" problem exactly when rules 2 to 5
\* found nothing and 2J # M + R, with R counting each true support flag; and
\* then it is the only problem of the list.
C11_DeterminacyReported ==
  (sane.ran /\ Len(state.members) > 0) =>
    /\ KindCount(sane.problems, DeterminacyKind) > 0
          <=> (RulesTwoToFiveClean(state) /\ Undetermined(state))
    /\ KindCount(sane.problems, DeterminacyKind) > 0 =>
          /\ Len(sane.problems) = 1
          /\ sane.problems[1].critical
          /\ sane.problems[1].message.nums
                = <<Len(state.joints), Len(state.members), Reactions(state)>>

\* the validator reported the determinacy problem on a pinned structure
C11_Witness ==
  /\ sane.ran
  /\ Len(state.members) > 0
  /\ KindCount(sane.problems, DeterminacyKind) = 1
  /\ state.joints[1].support = Pin

InvalidKind == "Invalid member exists on joint"

\* the index of the j-th member of s whose endpoints are one joint
DegenerateAt(s, j) ==
  CHOOSE k \in 1..Len(s.members) :
     /\ Degenerate(s.members[k])
     /\ Cardinality({q \in 1..k : Degenerate(s.members[q])}) = j

\* how many of the first k problems are of the kind
KindRank(problems, k, kind) ==
  Cardinality({q \in 1..k : IsKind(problems[q], kind)})

WithoutAt(seq, k) == SubSeq(seq, 1, k - 1) \o SubSeq(seq, k + 1, Len(seq))

\* C12: every member whose endpoint ids are equal gets a critical problem
\* that carries a fix, and calling the fix returns the joints as they are
\* and the members without that one member, the others in their order.
C12_DegenerateMemberFix ==
  /\ sane.ran =>
        /\ KindCount(sane.problems, InvalidKind)
              = Cardinality({k \in 1..Len(state.members) : Degenerate(state.members[k])})
        /\ \A k \in 1..Len(sane.problems) :
              IsKind(sane.problems[k], InvalidKind) =>
                sane.problems[k].critical /\ sane.problems[k].fix.present
  /\ (fixed.kind = "returned" /\ IsKind(sol.problems[fixed.index], InvalidKind)) =>
        /\ fixed.value.joints = state.joints
        /\ fixed.value.members
              = WithoutAt(state.members,
                          DegenerateAt(state, KindRank(sol.problems, fixed.index, InvalidKind)))

\* the fix of the second of two degenerate members, among three members, was called
C12_Witness ==
  /\ fixed.kind = "returned"
  /\ IsKind(sol.problems[fixed.index], InvalidKind)
  /\ KindRank(sol.problems, fixed.index, InvalidKind) = 2
  /\ Len(state.members) = 3
  /\ ~Degenerate(state.members[3])

ReactionsUnsolvableResult(r) ==
  /\ r.kind = "returned"
  /\ Len(r.problems) > 0
  /\ Last(r.problems) = OrfProblem
  /\ ~r.hasOrf
  /\ ~r.hasMemberForces

\* C14: when no joint has a support flag set and the validator reported no
\* critical problem, solve (either variant) does not throw and returns the
\* critical problem "could not solve for outside reaction forces" with
\* neither orf nor memberForces.
C14_NoSupportNoReactions ==
  (sane.ran /\ ~HasCritical(sane.problems) /\ Reactions(state) = 0) =>
    /\ ReactionsUnsolvableResult(sol)
    /\ solT.kind # "none" => ReactionsUnsolvableResult(solT)

\* both variants ran on two unsupported joints, one with a blank name, and one member
C14_Witness ==
  /\ sane.ran
  /\ solT.kind = "returned"
  /\ ~HasCritical(sane.problems)
  /\ Reactions(state) = 0
  /\ Len(state.joints) = 2
  /\ Len(state.members) = 1
  /\ BlankName(state.joints[2])

(***************************************************************************)
(* SpecEq: a system of equations over the variables "x" and "y" is given,  *)
(* and solveSystemOfEquations runs on it.                                  *)
(***************************************************************************)
MaxEquations == 3

MaxCoeff == 2

Coeffs == {Num(c) : c \in 0..MaxCoeff}

\* the term maps of an equation, in insertion order
TermMaps ==
  {<<>>}
  \cup {<<Term(<<"x">>, c)>> : c \in Coeffs}
  \cup {<<Term(<<"y">>, c)>> : c \in Coeffs}
  \cup {<<Term(<<"x">>, c), Term(<<"y">>, d)>> : c \in Coeffs, d \in Coeffs}
  \cup {<<Term(<<"y">>, One), Term(<<"x">>, One)>>}

Constants == {Zero, Num(-MaxCoeff)}

InitEq ==
  /\ \E m \in 1..MaxEquations :
        \E ts \in [1..m -> TermMaps], cs \in [1..m -> Constants] :
           eqs = [i \in 1..m |-> Equation(ts[i], cs[i])]
  /\ eqSol = NotSolved
  /\ vecIn = NoVector
  /\ vecOut = NotScaled
  /\ ed = NoEditor
  /\ loop = NoLoop
  /\ state = EmptyState
  /\ sol = NotRun
  /\ solT = NotRun
  /\ json = NoJson
  /\ parsed = NotParsed
  /\ sane = NotValidated
  /\ fixed = NotFixed
  /\ after = state

SolveEquations ==
  /\ eqSol.kind = "none"
  /\ eqSol' = [kind |-> "returned", result |-> solveSystemOfEquations(eqs)]
  /\ UNCHANGED <<state, sol, solT, json, parsed, sane, fixed, after, eqs,
               vecIn, vecOut, ed, loop>>

NextEq == SolveEquations

SpecEq == InitEq /\ [][NextEq]_vars

\* the distinct variable names of the equations, in first-seen order
RECURSIVE FirstSeen(_, _, _, _)
FirstSeen(equations, i, k, seen) ==
  IF i > Len(equations) THEN seen
  ELSE IF k > Len(equations[i].terms) THEN FirstSeen(equations, i + 1, 1, seen)
  ELSE IF \E q \in 1..Len(seen) : seen[q] = equations[i].terms[k].name
  THEN FirstSeen(equations, i, k + 1, seen)
  ELSE FirstSeen(equations, i, k + 1, Append(seen, equations[i].terms[k].name))

\* the coefficient of a variable in an equation, 0 when it has no such term
CoeffOf(equation, name) ==
  IF \E k \in 1..Len(equation.terms) : equation.terms[k].name = name
  THEN equation.terms[CHOOSE k \in 1..Len(equation.terms) :
                        equation.terms[k].name = name].coeff
  ELSE Zero

\* the determinant of the square system of one or two variables is zero
SingularSystem(equations, names) ==
  IF Len(names) = 1 THEN CoeffOf(equations[1], names[1]) = Zero
  ELSE Sub(Mul(CoeffOf(equations[1], names[1]), CoeffOf(equations[2], names[2])),
           Mul(CoeffOf(equations[1], names[2]), CoeffOf(equations[2], names[1]))) = Zero

\* the value the solution gives a variable
ValueOf(solution, name) ==
  solution[CHOOSE k \in 1..Len(solution) : solution[k].name = name].value

\* the sum of coeff * value over the terms of the equation, plus its constant
LeftSide(equation, solution) ==
  Add(Sum([k \in 1..Len(equation.terms) |->
             Mul(equation.terms[k].coeff, ValueOf(solution, equation.terms[k].name))],
          Len(equation.terms)),
      equation.constant)

Solves(equations, names, r) ==
  /\ r.solved
  /\ [k \in 1..Len(r.solution) |-> r.solution[k].name] = names
  /\ \A i \in 1..Len(equations) : LeftSide(equations[i], r.solution) = Zero

\* C15: solveSystemOfEquations returns null when the number of equations
\* differs from the number of distinct variables or the matrix is singular,
\* and otherwise one value per distinct variable, in first-seen order, that
\* makes every equation's left side zero.
C15_EquationSolver ==
  eqSol.kind = "returned" =>
    IF Len(eqs) # Len(FirstSeen(eqs, 1, 1, <<>>))
       \/ SingularSystem(eqs, FirstSeen(eqs, 1, 1, <<>>))
    THEN ~eqSol.result.solved
    ELSE Solves(eqs, FirstSeen(eqs, 1, 1, <<>>), eqSol.result)

(***************************************************************************)
(* Claims about names                                                      *)
(***************************************************************************)
\* the structure with joint i named by the i-th letter, all else as it is
Renamed(s) ==
  State([i \in 1..Len(s.joints) |-> [s.joints[i] EXCEPT !.name = <<Letters[i]>>]],
        s.members)

\* the critical problems of a list, each by its kind and numbers (the text
\* of a message quotes joint names)
CriticalSet(problems) ==
  {[kind |-> problems[k].message.kind, nums |-> problems[k].message.nums] :
     k \in {q \in 1..Len(problems) : problems[q].critical}}

SameOutcome(r1, r2) ==
  /\ r1.kind = r2.kind
  /\ CriticalSet(r1.problems) = CriticalSet(r2.problems)
  /\ r1.hasOrf = r2.hasOrf
  /\ r1.orf = r2.orf
  /\ r1.hasMemberForces = r2.hasMemberForces
  /\ r1.memberForces = r2.memberForces

\* C16: joint names are advisory: solve returns the same critical problems,
\* the same orf and the same memberForces on a structure and on the same
\* structure with other (distinct, non-blank) joint names.
C16_NamesAdvisory ==
  sol.kind # "none" => SameOutcome(sol, solve(Renamed(state)))

(***************************************************************************)
(* The sign convention and the editor's label                              *)
(***************************************************************************)
\* the editor's label of a member force: "(compression)" when force < 0,
\* "(tension)" when force > 0, nothing otherwise (zero, NaN)
ForceLabel(force) ==
  IF force[1] < 0 THEN "(compression)"
  ELSE IF force[1] > 0 THEN "(tension)"
  ELSE ""

IsEndpoint(i, k) ==
  state.joints[i].id \in {state.members[k].jointIds[1], state.members[k].jointIds[2]}

\* everything that acts on joint i along axis but member k: the load, the
\* reaction and the pulls of the other members
RestOnJoint(r, i, k, axis) ==
  Sub(JointResidual(r, i, axis), MemberPull(r, i, k, axis))

\* joint i is a free end of member k: no other member, no load, no support
FreeUnloadedEnd(i, k) ==
  /\ IsEndpoint(i, k)
  /\ \A q \in 1..Len(state.members) : q # k => ~IsEndpoint(i, q)
  /\ state.joints[i].load = Vector2(Zero, Zero)
  /\ state.joints[i].support = NoSupport

\* C17: in every Solved result the force member m puts on an endpoint joint
\* is memberForces[m] times the unit vector from that joint to the member's
\* other endpoint (so it cancels whatever else acts on the joint), a member
\* with a free unloaded end has value 0, and the editor labels a positive
\* value "(tension)" and a negative one "(compression)".
C17_SignConvention ==
  (sol.kind = "returned" /\ sol.hasMemberForces) =>
    \A k \in 1..Len(state.members) :
       /\ \A i \in 1..Len(state.joints) : \A axis \in {"x", "y"} :
             IsEndpoint(i, k) =>
               MemberPull(sol, i, k, axis) = Neg(RestOnJoint(sol, i, k, axis))
       /\ (\E i \in 1..Len(state.joints) : FreeUnloadedEnd(i, k))
             => /\ sol.memberForces[state.members[k].id] = Zero
                /\ ForceLabel(sol.memberForces[state.members[k].id]) = ""
       /\ ForceLabel(sol.memberForces[state.members[k].id]) = "(tension)"
             <=> sol.memberForces[state.members[k].id][1] > 0
       /\ ForceLabel(sol.memberForces[state.members[k].id]) = "(compression)"
             <=> sol.memberForces[state.members[k].id][1] < 0

(***************************************************************************)
(* Claims about the order and the content of the validator's list          *)
(***************************************************************************)
MissingKind == "Joint name missing"

MultipleKind == "Multiple joint exist with name"

OverlapKind == "Joints overlap"

DuplicateKind == "Duplicate members exist between joints"

\* the rule a problem comes from: names, overlaps, degenerate members,
\* duplicate members; the two problems that are reported alone count as 0
RuleOf(problem) ==
  IF IsKind(problem, MissingKind) \/ IsKind(problem, MultipleKind) THEN 1
  ELSE IF IsKind(problem, OverlapKind) THEN 2
  ELSE IF IsKind(problem, InvalidKind) THEN 3
  ELSE IF IsKind(problem, DuplicateKind) THEN 4
  ELSE 0

\* the j-th smallest member of a set of numbers
Nth(S, j) == CHOOSE x \in S : Cardinality({y \in S : y <= x}) = j

\* how many of the first k problems come from the rule
RuleRank(problems, k, rule) ==
  Cardinality({q \in 1..k : RuleOf(problems[q]) = rule})

\* the joints rule 2 and rule 3 report, the members rule 4 and rule 5 report
NameHits(s) ==
  {i \in 1..Len(s.joints) : BlankName(s.joints[i]) \/ NameRepeats(s, i)}

OverlapHits(s) == {i \in 1..Len(s.joints) : Overlaps(s, i)}

DegenerateHits(s) == {k \in 1..Len(s.members) : Degenerate(s.members[k])}

\* a member is compared with the earlier members that were recorded, the
\* degenerate ones included
DuplicateHits(s) == {k \in 1..Len(s.members) : Repeated(s, k)}

\* the joint or member of s that problem k of the list is about, when the
\* problems of each rule are in list order
SubjectOf(s, problems, k) ==
  LET rule == RuleOf(problems[k])
      j == RuleRank(problems, k, rule)
  IN IF rule = 1 THEN Nth(NameHits(s), j)
     ELSE IF rule = 2 THEN Nth(OverlapHits(s), j)
     ELSE IF rule = 3 THEN Nth(DegenerateHits(s), j)
     ELSE Nth(DuplicateHits(s), j)

\* problem k of the list is the report of rule RuleOf on its subject
AboutSubject(s, problems, k) ==
  LET rule == RuleOf(problems[k])
      x == SubjectOf(s, problems, k)
  IN IF rule = 1
     THEN IF BlankName(s.joints[x]) THEN IsKind(problems[k], MissingKind)
          ELSE /\ IsKind(problems[k], MultipleKind)
               /\ problems[k].message.names = <<s.joints[x].name>>
     ELSE IF rule = 2
     THEN problems[k].message.names[2] = s.joints[x].name
     ELSE problems[k].fix.present /\ problems[k].fix.memberId = s.members[x].id

\* C18: the validator's list is in detection order: the name problems in
\* joint order, then the overlap problems in joint order, then the
\* degenerate-member problems in member order, then the duplicate-member
\* problems in member order; no problem of a later rule precedes one of an
\* earlier rule.
C18_DetectionOrder ==
  sane.ran =>
    /\ \A p, q \in 1..Len(sane.problems) :
          p < q => RuleOf(sane.problems[p]) <= RuleOf(sane.problems[q])
    /\ \A rule \in 1..4 :
          RuleRank(sane.problems, Len(sane.problems), rule)
            = Cardinality(IF rule = 1 THEN NameHits(state)
                          ELSE IF rule = 2 THEN OverlapHits(state)
                          ELSE IF rule = 3 THEN DegenerateHits(state)
                          ELSE DuplicateHits(state))
          \/ Len(state.members) = 0
    /\ \A k \in 1..Len(sane.problems) :
          RuleOf(sane.problems[k]) > 0 => AboutSubject(state, sane.problems, k)

\* a list with problems of all four rules, two of them name problems of
\* different kinds
C18_Witness ==
  /\ sane.ran
  /\ \A rule \in 1..4 : RuleRank(sane.problems, Len(sane.problems), rule) > 0
  /\ KindCount(sane.problems, MissingKind) > 0
  /\ KindCount(sane.problems, MultipleKind) > 0

NonBlankJoints(s) == {i \in 1..Len(s.joints) : ~BlankName(s.joints[i])}

\* the joints of s whose name is exactly the string
Named(s, name) == {i \in 1..Len(s.joints) : s.joints[i].name = name}

\* the "multiple joints" problems of the list that carry the name
MultipleCount(problems, name) ==
  Cardinality({k \in 1..Len(problems) :
                 /\ IsKind(problems[k], MultipleKind)
                 /\ problems[k].message.names = <<name>>})

\* C19: each joint whose trimmed name is empty yields exactly one
\* non-critical "joint name missing" problem and no "multiple joints"
\* problem, however many such joints there are; k joints sharing one exact
\* non-blank name yield exactly k - 1 non-critical "multiple joints"
\* problems, none of them at the first of the k.
C19_NameCheck ==
  (sane.ran /\ Len(state.members) > 0) =>
    /\ KindCount(sane.problems, MissingKind)
         = Cardinality({i \in 1..Len(state.joints) : BlankName(state.joints[i])})
    /\ \A i \in 1..Len(state.joints) :
          BlankName(state.joints[i]) =>
            MultipleCount(sane.problems, state.joints[i].name) = 0
    /\ \A i \in NonBlankJoints(state) :
          MultipleCount(sane.problems, state.joints[i].name)
            = Cardinality(Named(state, state.joints[i].name)) - 1
    /\ KindCount(sane.problems, MultipleKind)
         = Cardinality(NonBlankJoints(state))
           - Cardinality({state.joints[i].name : i \in NonBlankJoints(state)})
    /\ \A k \in 1..Len(sane.problems) :
          RuleOf(sane.problems[k]) = 1 =>
            /\ ~sane.problems[k].critical
            /\ ~sane.problems[k].fix.present
            /\ IsKind(sane.problems[k], MultipleKind) =>
                 SubjectOf(state, sane.problems, k)
                   # Nth(Named(state, sane.problems[k].message.names[1]), 1)

\* three joints named "A": two "multiple joints" problems
C19_Witness ==
  /\ sane.ran
  /\ Len(state.joints) = 3
  /\ \A i \in 1..3 : state.joints[i].name = <<"A">>
  /\ KindCount(sane.problems, MultipleKind) = 2

\* the first joint of s at the position of joint i
FirstAt(s, i) ==
  Nth({q \in 1..Len(s.joints) : s.joints[q].pos = s.joints[i].pos}, 1)

\* the problems of the list that come from the overlap rule, in list order
OverlapAt(problems, j) ==
  problems[CHOOSE k \in 1..Len(problems) :
             RuleOf(problems[k]) = 2 /\ RuleRank(problems, k, 2) = j]

\* C20: each joint at exactly the position (same x and same y) of an earlier
\* joint gets exactly one critical overlap problem, which names the first
\* joint at that position and then the joint itself; joints that differ in a
\* coordinate get none, so there are as many overlap problems as joints
\* minus distinct positions.
C20_OverlapCheck ==
  (sane.ran /\ Len(state.members) > 0) =>
    /\ KindCount(sane.problems, OverlapKind)
         = Len(state.joints)
           - Cardinality({state.joints[i].pos : i \in 1..Len(state.joints)})
    /\ KindCount(sane.problems, OverlapKind) = Cardinality(OverlapHits(state))
    /\ \A j \in 1..Cardinality(OverlapHits(state)) :
          LET i == Nth(OverlapHits(state), j)
              problem == OverlapAt(sane.problems, j)
          IN /\ problem.critical
             /\ ~problem.fix.present
             /\ problem.message.names
                  = <<state.joints[FirstAt(state, i)].name, state.joints[i].name>>

\* three joints at one point with three different names: two overlap problems
C20_Witness ==
  /\ sane.ran
  /\ Len(state.joints) = 3
  /\ Len(state.members) > 0
  /\ state.joints[1].pos = state.joints[2].pos
  /\ state.joints[2].pos = state.joints[3].pos
  /\ state.joints[1].name # state.joints[2].name
  /\ state.joints[2].name # state.joints[3].name
  /\ state.joints[1].name # state.joints[3].name
  /\ KindCount(sane.problems, OverlapKind) = 2

\* the members of s over the unordered pair of endpoints of member k
OverSamePair(s, k) ==
  {q \in 1..Len(s.members) : SameEnds(s.members[q], s.members[k])}

\* the duplicate problems of the list whose fix removes the member with the id
DuplicateReports(problems, id) ==
  Cardinality({p \in 1..Len(problems) :
                 /\ IsKind(problems[p], DuplicateKind)
                 /\ problems[p].fix.present
                 /\ problems[p].fix.memberId = id})

\* C21: the duplicate-member check does not depend on endpoint order:
\* members over (a, b) and (b, a) are one pair, for multi-digit and negative
\* ids too; of the n members over one unordered pair exactly the n - 1 later
\* ones are reported, each as a critical problem, the first never; and the
\* fix of a report removes that later member and no other.
C21_DuplicateMembers ==
  /\ (sane.ran /\ Len(state.members) > 0) =>
        /\ \A k \in 1..Len(state.members) :
              DuplicateReports(sane.problems, state.members[k].id)
                = IF k = Nth(OverSamePair(state, k), 1) THEN 0 ELSE 1
        /\ KindCount(sane.problems, DuplicateKind)
             = Cardinality(DuplicateHits(state))
        /\ \A p \in 1..Len(sane.problems) :
              IsKind(sane.problems[p], DuplicateKind) =>
                sane.problems[p].critical /\ sane.problems[p].fix.present
  /\ (fixed.kind = "returned" /\ IsKind(sol.problems[fixed.index], DuplicateKind)) =>
        /\ fixed.value.joints = state.joints
        /\ fixed.value.members
             = WithoutAt(state.members,
                         Nth(DuplicateHits(state),
                             KindRank(sol.problems, fixed.index, DuplicateKind)))

\* three members over joints 2 and 10, the second with its endpoints
\* swapped: the fix of the second of the two reports was called
C21_Witness ==
  /\ Len(state.members) = 3
  /\ state.members[1].jointIds = <<2, 10>>
  /\ state.members[2].jointIds = <<10, 2>>
  /\ state.members[3].jointIds = <<2, 10>>
  /\ fixed.kind = "returned"
  /\ IsKind(sol.problems[fixed.index], DuplicateKind)
  /\ KindRank(sol.problems, fixed.index, DuplicateKind) = 2
  /\ fixed.value.members = SubSeq(state.members, 1, 2)

(***************************************************************************)
(* Claims about the reaction map                                           *)
(***************************************************************************)
\* what the equation solver returned for the reaction equations of s
ReactionSolution(s) ==
  solveSystemOfEquations(
    OrfEquations(s.joints, 1, EmptyEquation, EmptyEquation, EmptyEquation))

\* the value the solution holds for the variable of joint id and axis
SolvedValue(solution, id, axis) ==
  solution[CHOOSE k \in 1..Len(solution) :
             solution[k].name = NumToString(id) \o <<"_">> \o <<axis>>].value

Supported(joint, axis) == IF axis = "x" THEN joint.support.x ELSE joint.support.y

\* C22: when the reaction stage succeeds the orf map has exactly one entry
\* per joint id; on an axis whose support flag is false the component is
\* exactly 0, and on a supported axis it is the solved value of the joint's
\* own variable "jointId_axis".
C22_OrfMap ==
  (sol.kind = "returned" /\ sol.hasOrf) =>
    /\ DOMAIN sol.orf = {state.joints[i].id : i \in 1..Len(state.joints)}
    /\ \A i \in 1..Len(state.joints) : \A axis \in {"x", "y"} :
          Axis(sol.orf[state.joints[i].id], axis)
            = IF Supported(state.joints[i], axis)
              THEN SolvedValue(ReactionSolution(state).solution,
                               state.joints[i].id, axis)
              ELSE Zero

\* a pin at joint 2, a roller at joint 10 that carries a vertical reaction
\* and no horizontal one
C22_Witness ==
  /\ sol.kind = "returned"
  /\ sol.hasOrf
  /\ state.joints[1].support = Pin
  /\ Len(state.joints) >= 2
  /\ state.joints[2].support = Roller
  /\ sol.orf[10].y # Zero
  /\ sol.orf[10].x = Zero

(***************************************************************************)
(* Claims about the member stage and withMag                               *)
(***************************************************************************)
\* solve called solveMembers: it returned reactions, or threw past them
ReachedMemberStage == (sol.kind = "returned" /\ sol.hasOrf) \/ sol.kind = "threw"

\* the vector from the first endpoint of a member to the second
Span(s, member) ==
  minus(JointLUT(s, member.jointIds[2]).pos, JointLUT(s, member.jointIds[1]).pos)

\* C23: whenever solve reaches the member-force stage, every member joins
\* two different joint ids whose positions differ, so each direction vector
\* used as a coefficient has length exactly 1 and withMag never falls back
\* to the zero vector there.
C23_UnitDirections ==
  ReachedMemberStage =>
    \A k \in 1..Len(state.members) :
       /\ state.members[k].jointIds[1] # state.members[k].jointIds[2]
       /\ Span(state, state.members[k]) # Vector2(Zero, Zero)
       /\ len(withMag(Span(state, state.members[k]), One)) = One
       /\ len(withMag(scale(Span(state, state.members[k]), Num(-1)), One)) = One
       /\ ~IsNaN(Div(One, len(Span(state, state.members[k]))))

\* the member stage was reached on a structure with a diagonal member
C23_Witness ==
  /\ sol.kind = "returned"
  /\ sol.hasMemberForces
  /\ \E k \in 1..Len(state.members) :
        /\ Span(state, state.members[k]).x # Zero
        /\ Span(state, state.members[k]).y # Zero

(***************************************************************************)
(* SpecVec: withMag is applied to a vector and a magnitude.                *)
(***************************************************************************)
MaxCoord == 4

MaxMag == 2

\* the vectors with integer coordinates up to MaxCoord and an integer length
Vectors ==
  {v \in (-MaxCoord..MaxCoord) \X (-MaxCoord..MaxCoord) :
     IsSquare(v[1] * v[1] + v[2] * v[2])}

\* the magnitudes asked for: integers and a half
Magnitudes == {Num(m) : m \in -MaxMag..MaxMag} \cup {<<1, 2>>}

InitVec ==
  /\ \E v \in Vectors, mag \in Magnitudes :
        vecIn = [kind |-> "given", v |-> Vector2(Num(v[1]), Num(v[2])), mag |-> mag]
  /\ vecOut = NotScaled
  /\ ed = NoEditor
  /\ loop = NoLoop
  /\ state = EmptyState
  /\ sol = NotRun
  /\ solT = NotRun
  /\ json = NoJson
  /\ parsed = NotParsed
  /\ sane = NotValidated
  /\ fixed = NotFixed
  /\ after = state
  /\ eqs = NoEquations
  /\ eqSol = NotSolved

\* vecIn.v.withMag(vecIn.mag)
WithMag ==
  /\ vecOut.kind = "none"
  /\ vecOut' = [kind |-> "returned", value |-> withMag(vecIn.v, vecIn.mag)]
  /\ UNCHANGED <<state, sol, solT, json, parsed, sane, fixed, after, eqs, eqSol, vecIn, ed, loop>>

NextVec == WithMag

SpecVec == InitVec /\ [][NextVec]_vars

\* C24: withMag on a vector of length zero returns the zero vector (0, 0)
\* for every requested magnitude, 1 included, and no component of it is NaN
\* or infinite.
C24_WithMagZeroLength ==
  (vecOut.kind = "returned" /\ len(vecIn.v) = Zero) =>
    /\ vecOut.value = Vector2(Zero, Zero)
    /\ IsFinite(vecOut.value.x)
    /\ IsFinite(vecOut.value.y)

(***************************************************************************)
(* The two variants of solve compared                                      *)
(***************************************************************************)
\* C25: the derivation trace does not influence results: on every structure
\* the trace-producing solve and the trace-free solve end the same way and
\* return the same problems, the same orf and the same memberForces.
C25_TraceFreeEquivalent ==
  (sol.kind # "none" /\ solT.kind # "none") =>
    /\ solT.kind = sol.kind
    /\ solT.problems = sol.problems
    /\ solT.hasOrf = sol.hasOrf
    /\ solT.orf = sol.orf
    /\ solT.hasMemberForces = sol.hasMemberForces
    /\ solT.memberForces = sol.memberForces

(***************************************************************************)
(* Parsed structures and members from a joint to itself                    *)
(***************************************************************************)
\* C26: no structure parseState returns holds a member whose two joint ids
\* are equal: every parsed member references two distinct joints.
C26_ParsedMembersDistinctEnds ==
  parsed.kind = "value" =>
    \A k \in 1..Len(parsed.value.members) :
       parsed.value.members[k].jointIds[1] # parsed.value.members[k].jointIds[2]

(***************************************************************************)
(* Structures that are not statically determinate                          *)
(***************************************************************************)
\* C27: on every structure with a member and 2J # M + R, solve never
\* returns memberForces, the structures whose only problems are non-critical
\* name problems included.
C27_UndeterminedNeverSolved ==
  (/\ sol.kind = "returned"
   /\ Len(state.members) > 0
   /\ Undetermined(state))
  => ~sol.hasMemberForces

(***************************************************************************)
(* The editor (App.svelte).  Its state is the structure on screen and the  *)
(* counter nextId.  Two versions of the component exist: "max" starts      *)
(* nextId one above the largest id of the default truss, "zero" starts it  *)
(* at 0.  The problems shown with a Delete button are the problems of      *)
(* solve(state) that carry a fix; only isSane makes such problems, they    *)
(* are critical, and solve returns isSane's list as it is when a problem   *)
(* is critical, so they are the fix-carrying problems of isSane(state).    *)
(***************************************************************************)
DEFAULT_TRUSS ==
  State(<< Joint(6, <<"A">>, Vector2(Num(0), Num(0)), Vector2(Zero, Zero), Pin),
           Joint(7, <<"B">>, Vector2(Num(5), Num(0)), Vector2(Zero, Num(-250)), NoSupport),
           Joint(8, <<"C">>, Vector2(Num(10), Num(0)), Vector2(Zero, Zero), Roller),
           Joint(11, <<"D">>, Vector2(Num(3), Num(3)), Vector2(Zero, Num(-1000)), NoSupport),
           Joint(14, <<"E">>, Vector2(Num(7), Num(3)), Vector2(Zero, Num(-500)), NoSupport) >>,
        << Member(18, 6, 7), Member(19, 6, 11), Member(20, 7, 8), Member(21, 7, 11),
           Member(22, 7, 14), Member(23, 8, 14), Member(24, 11, 14) >>)

defaultJointNames ==
  << "A", "B", "C", "D", "E", "F", "G", "H", "I", "J", "K", "L", "M",
     "N", "O", "P", "Q", "R", "S", "T", "U", "V", "W", "X", "Y", "Z" >>

\* Math.max(...joint ids, ...member ids) + 1
NextIdAbove(s) ==
  LET ids == {s.joints[i].id : i \in 1..Len(s.joints)}
             \cup {s.members[k].id : k \in 1..Len(s.members)}
  IN (CHOOSE m \in ids : \A x \in ids : x <= m) + 1

NameTaken(s, name) == \E i \in 1..Len(s.joints) : s.joints[i].name = <<name>>

\* the loop over defaultJointNames that breaks at the first name no joint
\* has; when every name is taken the loop ends on the last one
FirstFreeName(s) ==
  IF \A n \in 1..Len(defaultJointNames) : NameTaken(s, defaultJointNames[n])
  THEN <<defaultJointNames[Len(defaultJointNames)]>>
  ELSE <<defaultJointNames[CHOOSE n \in 1..Len(defaultJointNames) :
            /\ ~NameTaken(s, defaultJointNames[n])
            /\ \A q \in 1..(n - 1) : NameTaken(s, defaultJointNames[q])]>>

\* defaultJointNames[state.joints.length]
NameByCount(s) == <<defaultJointNames[Len(s.joints) + 1]>>

NewJointName(variant, s) ==
  IF variant = "max" THEN FirstFreeName(s) ELSE NameByCount(s)

RECURSIVE WithoutJoint(_, _)
\* state.joints.filter(joint => joint.id != id)
WithoutJoint(joints, id) ==
  IF joints = <<>> THEN <<>>
  ELSE IF Head(joints).id # id THEN <<Head(joints)>> \o WithoutJoint(Tail(joints), id)
  ELSE WithoutJoint(Tail(joints), id)

RECURSIVE WithoutIncident(_, _)
\* state.members.filter(member => !member.jointIds.includes(id))
WithoutIncident(members, id) ==
  IF members = <<>> THEN <<>>
  ELSE IF Head(members).jointIds[1] # id /\ Head(members).jointIds[2] # id
  THEN <<Head(members)>> \o WithoutIncident(Tail(members), id)
  ELSE WithoutIncident(Tail(members), id)

\* removeJoint that leaves the members as they are
removeJointOnly(s, id) == State(WithoutJoint(s.joints, id), s.members)

removeJoint(s, id) == State(WithoutJoint(s.joints, id), WithoutIncident(s.members, id))

addJoint(s, id, name) ==
  State(Append(s.joints,
               Joint(id, name, Vector2(Num(-2), Num(2)), Vector2(Zero, Zero), NoSupport)),
        s.members)

removeMember(s, id) == State(s.joints, Filter(s.members, id))

addMember(s, id) ==
  State(s.joints, Append(s.members, Member(id, s.joints[1].id, s.joints[2].id)))

MaxEdits == 7

Edited == [ed EXCEPT !.edits = ed.edits + 1]

EditedWithNewId == [ed EXCEPT !.edits = ed.edits + 1, !.nextId = ed.nextId + 1]

InitEditor ==
  /\ state = DEFAULT_TRUSS
  /\ \/ ed = [variant |-> "max", nextId |-> NextIdAbove(DEFAULT_TRUSS), edits |-> 0]
     \/ ed = [variant |-> "zero", nextId |-> 0, edits |-> 0]
  /\ sol = NotRun
  /\ solT = NotRun
  /\ json = NoJson
  /\ parsed = NotParsed
  /\ sane = NotValidated
  /\ fixed = NotFixed
  /\ after = state
  /\ eqs = NoEquations
  /\ eqSol = NotSolved
  /\ vecIn = NoVector
  /\ vecOut = NotScaled
  /\ loop = NoLoop

EditorUnchanged ==
  UNCHANGED <<sol, solT, json, parsed, sane, fixed, after, eqs, eqSol, vecIn, vecOut,
              loop>>

AddJoint ==
  /\ ed.edits < MaxEdits
  /\ state' = addJoint(state, ed.nextId, NewJointName(ed.variant, state))
  /\ ed' = EditedWithNewId
  /\ EditorUnchanged

\* the button is enabled when there are two joints
AddMember ==
  /\ ed.edits < MaxEdits
  /\ Len(state.joints) >= 2
  /\ state' = addMember(state, ed.nextId)
  /\ ed' = EditedWithNewId
  /\ EditorUnchanged

\* the Delete button of a joint row
RemoveJoint ==
  /\ ed.edits < MaxEdits
  /\ \E i \in 1..Len(state.joints) : state' = removeJoint(state, state.joints[i].id)
  /\ ed' = Edited
  /\ EditorUnchanged

\* the Delete button of a member row
RemoveMember ==
  /\ ed.edits < MaxEdits
  /\ \E k \in 1..Len(state.members) : state' = removeMember(state, state.members[k].id)
  /\ ed' = Edited
  /\ EditorUnchanged

\* the Delete button of a problem: state = problem.fix()
ApplyFix ==
  /\ ed.edits < MaxEdits
  /\ \E p \in 1..Len(isSane(state)) :
        /\ isSane(state)[p].fix.present
        /\ state' = CallFix(state, isSane(state)[p])
  /\ ed' = Edited
  /\ EditorUnchanged

NextEditor == AddJoint \/ AddMember \/ RemoveJoint \/ RemoveMember \/ ApplyFix

SpecEditor == InitEditor /\ [][NextEditor]_vars

AllIds(s) ==
  [i \in 1..(Len(s.joints) + Len(s.members)) |->
     IF i <= Len(s.joints) THEN s.joints[i].id ELSE s.members[i - Len(s.joints)].id]

\* C28: in the editor, started on the default truss, after any sequence of
\* addJoint, addMember, removeJoint, removeMember and fixes, the joint ids
\* are pairwise distinct, the member ids are pairwise distinct and no
\* member id is a joint id; an id handed out is never an id already present.
C28_EditorIdsUnique ==
  ed.variant # "none" =>
    \A i, k \in 1..Len(AllIds(state)) : i # k => AllIds(state)[i] # AllIds(state)[k]

\* C29: in the editor, after any such sequence, both endpoint ids of every
\* member are ids of joints of the joint list.
C29_EditorEndpointsExist ==
  ed.variant # "none" =>
    \A k \in 1..Len(state.members) :
       /\ state.members[k].jointIds[1] \in JointIds(state)
       /\ state.members[k].jointIds[2] \in JointIds(state)

\* joint 7, which four members of the default truss end on, was removed,
\* and a member was added between the first two joints that were left
C29_Witness ==
  /\ ed.variant = "max"
  /\ 7 \notin JointIds(state)
  /\ Len(state.joints) = 4
  /\ Len(state.members) = 4
  /\ state.members[4] = Member(25, 6, 8)

(***************************************************************************)
(* SpecFix: a structure is shown, solve runs on it, and each click on a    *)
(* problem's Delete button replaces the structure by what the fix returns; *)
(* the reactive statement solves the new structure.  loop.given is the     *)
(* structure first shown, loop.applied the number of fixes applied.        *)
(***************************************************************************)
MaxFixMembers == 4

MaxApplied == 6

FixNames == <<<<"A">>, <<"B">>, <<"C">>>>

FixPoints == <<<<0, 0>>, <<3, 0>>, <<0, 4>>>>

InitFix ==
  /\ \E n \in 1..MaxSaneJoints :
        \E ms \in SeqsUpTo(SanePairs(n), MaxFixMembers) :
           state = SaneStructure(n, FixNames, FixPoints, Pin, Roller, ms)
  /\ sol = solve(state)
  /\ loop = [given |-> state, applied |-> 0]
  /\ solT = NotRun
  /\ json = NoJson
  /\ parsed = NotParsed
  /\ sane = NotValidated
  /\ fixed = NotFixed
  /\ after = state
  /\ eqs = NoEquations
  /\ eqSol = NotSolved
  /\ vecIn = NoVector
  /\ vecOut = NotScaled
  /\ ed = NoEditor

\* state = problem.fix(), then solution = solve(state)
ApplyOfferedFix ==
  /\ loop.applied < MaxApplied
  /\ sol.kind = "returned"
  /\ \E p \in 1..Len(sol.problems) :
        /\ sol.problems[p].fix.present
        /\ state' = CallFix(state, sol.problems[p])
        /\ sol' = solve(CallFix(state, sol.problems[p]))
  /\ loop' = [loop EXCEPT !.applied = loop.applied + 1]
  /\ UNCHANGED <<solT, json, parsed, sane, fixed, after, eqs, eqSol, vecIn, vecOut, ed>>

NextFix == ApplyOfferedFix

SpecFix == InitFix /\ [][NextFix]_vars

FixOffered ==
  sol.kind = "returned" /\ \E p \in 1..Len(sol.problems) : sol.problems[p].fix.present

\* C30: from a structure with M members, applying fixes offered by solve
\* and solving again comes to an end: each application leaves the joints as
\* they are and the member count one lower, so no more than M are applied,
\* and in the end solve offers no fix.
C30_FixingTerminates ==
  /\ [][/\ state'.joints = state.joints
        /\ Len(state'.members) = Len(state.members) - 1]_vars
  /\ [](loop.given.joints = state.joints
        /\ Len(state.members) + loop.applied = Len(loop.given.members)
        /\ (Len(state.members) = 0 => ~FixOffered))
  /\ <>[][FALSE]_vars

\* four members were given, three fixes were applied and none is offered
C30_Witness ==
  /\ Len(loop.given.members) = MaxFixMembers
  /\ loop.applied = 3
  /\ ~FixOffered
  /\ sol.kind = "returned"

====
